---- MODULE Spec2Model ----
(***************************************************************************)
(* HeatWatch risk engine (src/src/models/risk_engine.py) and the KPI       *)
(* validator (src/src/data/validators.py).                                 *)
(*                                                                         *)
(* Numbers.  A Python float is modelled by the exact rational it stands    *)
(* for, a record [n |-> numerator, d |-> denominator] in lowest terms with *)
(* d > 0; a Python int is a TLA+ integer.  Arithmetic is exact: the model  *)
(* does not reproduce binary floating-point rounding error (about 1e-16    *)
(* relative), NaN or infinities.                                           *)
(***************************************************************************)
EXTENDS Integers, Sequences, FiniteSets, TLC

VARIABLES call, df_env, df_micro, df_vuln, kpi

vars == <<call, df_env, df_micro, df_vuln, kpi>>

(***************************************************************************)
(* Exact rational arithmetic                                               *)
(***************************************************************************)
Abs(x) == IF x < 0 THEN -x ELSE x

RECURSIVE GCD(_, _)
GCD(a, b) == IF b = 0 THEN a ELSE IF b = 1 THEN 1 ELSE GCD(b, a % b)

\* n/d in lowest terms (an integer needs no reduction).
Rat(n, d) ==
    IF d = 1 THEN [n |-> n, d |-> 1]
    ELSE LET s == IF d < 0 THEN -1 ELSE 1
             g == GCD(Abs(n), Abs(d))
         IN  [n |-> (s * n) \div g, d |-> (s * d) \div g]

RatI(i) == [n |-> i, d |-> 1]

RAdd(a, b) == Rat(a.n * b.d + b.n * a.d, a.d * b.d)
RSub(a, b) == Rat(a.n * b.d - b.n * a.d, a.d * b.d)
RMul(a, b) ==
    LET g1 == GCD(Abs(a.n), b.d)
        g2 == GCD(Abs(b.n), a.d)
    IN  Rat((a.n \div g1) * (b.n \div g2), (a.d \div g2) * (b.d \div g1))
RDiv(a, b) == RMul(a, Rat(b.d, b.n))

RLt(a, b) == a.n * b.d < b.n * a.d
RLe(a, b) == a.n * b.d <= b.n * a.d
RGe(a, b) == RLe(b, a)
RGt(a, b) == RLt(b, a)
REq(a, b) == a.n * b.d = b.n * a.d

\* Python's two-argument max(a, b) and min(a, b): the first argument wins a tie.
RMax(a, b) == IF RGt(b, a) THEN b ELSE a
RMin(a, b) == IF RLt(b, a) THEN b ELSE a
IMax(a, b) == IF b > a THEN b ELSE a
IMin(a, b) == IF b < a THEN b ELSE a

\* Python's round(x): the nearest integer, a tie going to the even one.
PyRound(x) ==
    LET f == x.n \div x.d
        r == x.n - f * x.d
    IN  IF 2 * r < x.d THEN f
        ELSE IF 2 * r > x.d THEN f + 1
        ELSE IF f % 2 = 0 THEN f ELSE f + 1

\* Python's round(x, ndigits) for ndigits = 1, 2: scale is 10^ndigits.
PyRoundTo(x, scale) == Rat(PyRound(RMul(x, RatI(scale))), scale)

\* Python's int(x) of a float: truncation toward zero.
PyInt(x) == IF x.n >= 0 THEN x.n \div x.d ELSE -((-x.n) \div x.d)

(***************************************************************************)
(* risk_engine.py: normalisation and sub-scores                            *)
(***************************************************************************)
\* A faulty _normalize, for contrast: the result is not clamped to [0,100].
_normalize_unclamped(value, min_val, max_val) ==
    IF REq(max_val, min_val) THEN Rat(50, 1)
    ELSE RMul(RDiv(RSub(value, min_val), RSub(max_val, min_val)), RatI(100))

_normalize(value, min_val, max_val) ==
    IF REq(max_val, min_val) THEN Rat(50, 1)
    ELSE RMax(RatI(0),
              RMin(RatI(100),
                   RMul(RDiv(RSub(value, min_val), RSub(max_val, min_val)),
                        RatI(100))))

\* A faulty compute_heat_score, for contrast: the night-time term is
\* subtracted instead of added.
compute_heat_score_minus(temp_c, nighttime_temp_c) ==
    LET nighttime_weight == Rat(15, 10)
        combined == RSub(temp_c, RMul(nighttime_weight, nighttime_temp_c))
    IN  _normalize(combined, RatI(40), RatI(105))

compute_heat_score(temp_c, nighttime_temp_c) ==
    LET nighttime_weight == Rat(15, 10)
        combined == RAdd(temp_c, RMul(nighttime_weight, nighttime_temp_c))
    IN  _normalize(combined, RatI(40), RatI(105))

\* A faulty compute_pollution_score, for contrast: it saturates at the
\* 35 ug/m3 hazard threshold, not at 80.
compute_pollution_score_early(pm25) == _normalize(pm25, RatI(10), RatI(35))

compute_pollution_score(pm25) == _normalize(pm25, RatI(10), RatI(80))

compute_micro_signal_score(search, pharmacy, clinic) ==
    RAdd(RAdd(RMul(Rat(40, 100), search), RMul(Rat(35, 100), pharmacy)),
         RMul(Rat(25, 100), clinic))

\* The weighted sum of lines 61-66, before rounding.
RiskWeightedSum(heat_score, pollution_score, vulnerability_score, micro_signal_score) ==
    RAdd(RAdd(RAdd(RMul(Rat(35, 100), heat_score),
                   RMul(Rat(25, 100), pollution_score)),
              RMul(Rat(25, 100), vulnerability_score)),
         RMul(Rat(15, 100), micro_signal_score))

\* A faulty risk index, for contrast: the weighted sum is not clamped.
compute_heat_respiratory_risk_index_unclamped(heat_score, pollution_score, vulnerability_score, micro_signal_score) ==
    PyRound(RiskWeightedSum(heat_score, pollution_score,
                            vulnerability_score, micro_signal_score))

\* A faulty risk index, for contrast: the weighted sum is truncated (int)
\* instead of rounded.
compute_heat_respiratory_risk_index_trunc(heat_score, pollution_score, vulnerability_score, micro_signal_score) ==
    LET risk == RiskWeightedSum(heat_score, pollution_score,
                                vulnerability_score, micro_signal_score)
    IN  IMax(0, IMin(100, PyInt(risk)))

compute_heat_respiratory_risk_index(heat_score, pollution_score, vulnerability_score, micro_signal_score) ==
    LET risk == RiskWeightedSum(heat_score, pollution_score,
                                vulnerability_score, micro_signal_score)
    IN  IMax(0, IMin(100, PyRound(risk)))

(***************************************************************************)
(* _sigmoid and the rounding of its percentage.                            *)
(*                                                                         *)
(* round(100 * sigmoid(x)) >= k  iff  x >= logit((k - 1/2) / 100): the      *)
(* sigmoid is strictly increasing and for rational x the product           *)
(* 100 * sigmoid(x) is never a rounding tie.  SigmoidPctCuts[k] is          *)
(* ceil(SigmoidScale * logit((k - 1/2) / 100)), so for every x that is a    *)
(* multiple of 1 / SigmoidScale (every x computed from readings on a 0.1    *)
(* grid) the comparison below is exact.  An overflowing np.exp gives        *)
(* p = 0.0, the value the table gives as well.                              *)
(***************************************************************************)
SigmoidScale == 20000

SigmoidPctCuts ==
    << -105866, -83691, -73271, -66335, -61100, -56877, -53323, -50246, -47525,
       -45081, -42857, -40813, -38918, -37149, -35487, -33918, -32429, -31011,
       -29656, -28356, -27106, -25900, -24735, -23605, -22509, -21442, -20402,
       -19388, -18395, -17424, -16472, -15536, -14617, -13713, -12821, -11942,
       -11074, -10216, -9367, -8526, -7693, -6866, -6045, -5229, -4417, -3609,
       -2804, -2001, -1200, -400, 401, 1201, 2002, 2805, 3610, 4418, 5230, 6046,
       6867, 7694, 8527, 9368, 10217, 11075, 11943, 12822, 13714, 14618, 15537,
       16473, 17425, 18396, 19389, 20403, 21443, 22510, 23606, 24736, 25901,
       27107, 28357, 29657, 31012, 32430, 33919, 35488, 37150, 38919, 40814,
       42858, 45082, 47526, 50247, 53324, 56878, 61101, 66336, 73272, 83692,
       105867 >>

\* round(_sigmoid(x) * 100), for x a multiple of 1 / SigmoidScale.
SigmoidPct(x) ==
    LET xs == x.n * (SigmoidScale \div x.d)
    IN  Cardinality({k \in 1..100 : xs >= SigmoidPctCuts[k]})

\* A faulty logit, for contrast: warm nights lower it.
SurgeLogit_cool_nights(micro_signal_score, pm25, nighttime_temp) ==
    RSub(RAdd(RMul(Rat(6, 100), RSub(micro_signal_score, RatI(50))),
              RMul(Rat(5, 100), RSub(pm25, RatI(35)))),
         RMul(Rat(8, 100), RSub(nighttime_temp, RatI(18))))

\* The logit x of line 81.
SurgeLogit(micro_signal_score, pm25, nighttime_temp) ==
    RAdd(RAdd(RMul(Rat(6, 100), RSub(micro_signal_score, RatI(50))),
              RMul(Rat(5, 100), RSub(pm25, RatI(35)))),
         RMul(Rat(8, 100), RSub(nighttime_temp, RatI(18))))

compute_respiratory_surge_probability(micro_signal_score, pm25, nighttime_temp) ==
    LET x == SurgeLogit(micro_signal_score, pm25, nighttime_temp)
    IN  IMax(0, IMin(100, SigmoidPct(x)))

\* A faulty compute_combined_stress, for contrast: the larger of the two
\* indices instead of their weighted sum.
compute_combined_stress_max(heat_resp_risk, surge_prob) ==
    PyRoundTo(Rat(IMax(heat_resp_risk, surge_prob), 100), 100)

\* A faulty compute_combined_stress, for contrast: the two weights swapped.
compute_combined_stress_swapped(heat_resp_risk, surge_prob) ==
    PyRoundTo(RAdd(RMul(Rat(4, 10), Rat(heat_resp_risk, 100)),
                   RMul(Rat(6, 10), Rat(surge_prob, 100))), 100)

compute_combined_stress(heat_resp_risk, surge_prob) ==
    PyRoundTo(RAdd(RMul(Rat(6, 10), Rat(heat_resp_risk, 100)),
                   RMul(Rat(4, 10), Rat(surge_prob, 100))), 100)

\* A faulty compute_icu_strain, for contrast: the baseline 5 is left out.
compute_icu_strain_no_baseline(heat_resp_risk, surge_prob) ==
    LET strain == RAdd(RMul(Rat(25, 100), RatI(heat_resp_risk)),
                       RMul(Rat(15, 100), RatI(surge_prob)))
    IN  IMax(0, IMin(40, PyRound(strain)))

\* A faulty compute_icu_strain, for contrast: rounded but not clamped.
compute_icu_strain_unclamped(heat_resp_risk, surge_prob) ==
    LET strain == RAdd(RAdd(RatI(5), RMul(Rat(25, 100), RatI(heat_resp_risk))),
                       RMul(Rat(15, 100), RatI(surge_prob)))
    IN  PyRound(strain)

compute_icu_strain(heat_resp_risk, surge_prob) ==
    LET strain == RAdd(RAdd(RatI(5), RMul(Rat(25, 100), RatI(heat_resp_risk))),
                       RMul(Rat(15, 100), RatI(surge_prob)))
    IN  IMax(0, IMin(40, PyRound(strain)))

(***************************************************************************)
(* compute_alert_level                                                     *)
(*                                                                         *)
(* The thresholds argument is [given |-> FALSE] for None and               *)
(* [given |-> TRUE, map |-> m] for a mapping m, a function from some keys  *)
(* to integers.  thresholds[k] on a key the mapping lacks raises KeyError; *)
(* the body is evaluated in source order, so a key is looked up only when  *)
(* control reaches the comparison that reads it (the `or` of line 148      *)
(* short-circuits).                                                        *)
(***************************************************************************)
ThresholdKeys ==
    {"watch_heat_risk", "warning_heat_risk", "emergency_heat_risk",
     "watch_surge_prob", "warning_surge_prob", "emergency_surge_prob",
     "emergency_icu_strain"}

DefaultThresholds ==
    [watch_heat_risk |-> 55, warning_heat_risk |-> 70, emergency_heat_risk |-> 85,
     watch_surge_prob |-> 35, warning_surge_prob |-> 55, emergency_surge_prob |-> 70,
     emergency_icu_strain |-> 30]

NoThresholds == [given |-> FALSE]

KeyError(k) == [error |-> "KeyError", key |-> k]

IsError(r) == "error" \in DOMAIN r

\* A faulty join, for contrast: only the first reason is reported.
JoinPlus_first(reasons) == reasons[1]

\* " + ".join(reasons), for a non-empty list.
RECURSIVE JoinPlus(_)
JoinPlus(reasons) ==
    IF Len(reasons) = 1 THEN reasons[1]
    ELSE reasons[1] \o " + " \o JoinPlus(Tail(reasons))

\* A faulty WATCH check, for contrast: the surge comparison is reversed.
AlertWatchStage_reversed(heat_resp_risk, surge_prob, th) ==
    IF "watch_heat_risk" \notin DOMAIN th THEN KeyError("watch_heat_risk")
    ELSE IF heat_resp_risk >= th["watch_heat_risk"]
         THEN [value |-> "WATCH", reason |-> "Elevated Indicators"]
    ELSE IF "watch_surge_prob" \notin DOMAIN th THEN KeyError("watch_surge_prob")
    ELSE IF surge_prob <= th["watch_surge_prob"]
         THEN [value |-> "WATCH", reason |-> "Elevated Indicators"]
    ELSE [value |-> "NORMAL", reason |-> "All indicators within normal range"]

\* Lines 147-151: the WATCH check and the NORMAL default.
AlertWatchStage(heat_resp_risk, surge_prob, th) ==
    IF "watch_heat_risk" \notin DOMAIN th THEN KeyError("watch_heat_risk")
    ELSE IF heat_resp_risk >= th["watch_heat_risk"]
         THEN [value |-> "WATCH", reason |-> "Elevated Indicators"]
    ELSE IF "watch_surge_prob" \notin DOMAIN th THEN KeyError("watch_surge_prob")
    ELSE IF surge_prob >= th["watch_surge_prob"]
         THEN [value |-> "WATCH", reason |-> "Elevated Indicators"]
    ELSE [value |-> "NORMAL", reason |-> "All indicators within normal range"]

\* Lines 136-145: the WARNING check.
AlertWarningStage(heat_resp_risk, surge_prob, combined, th) ==
    IF "warning_heat_risk" \notin DOMAIN th THEN KeyError("warning_heat_risk")
    ELSE IF "warning_surge_prob" \notin DOMAIN th THEN KeyError("warning_surge_prob")
    ELSE
      LET reasons ==
            (IF heat_resp_risk >= th["warning_heat_risk"]
             THEN <<"Elevated Heat-Respiratory Risk">> ELSE <<>>)
            \o (IF surge_prob >= th["warning_surge_prob"]
                THEN <<"Elevated Surge Probability">> ELSE <<>>)
            \o (IF RGe(combined, Rat(65, 100))
                THEN <<"Multi-signal Threshold">> ELSE <<>>)
      IN  IF reasons # <<>>
          THEN [value |-> "WARNING", reason |-> JoinPlus(reasons)]
          ELSE AlertWatchStage(heat_resp_risk, surge_prob, th)

\* A faulty compute_alert_level, for contrast: the EMERGENCY check leaves out
\* the ICU-strain condition.
compute_alert_level_no_icu(heat_resp_risk, surge_prob, combined, icu_strain, thresholds) ==
    LET th == IF thresholds.given THEN thresholds.map ELSE DefaultThresholds
    IN  IF "emergency_heat_risk" \notin DOMAIN th THEN KeyError("emergency_heat_risk")
        ELSE IF "emergency_surge_prob" \notin DOMAIN th THEN KeyError("emergency_surge_prob")
        ELSE IF "emergency_icu_strain" \notin DOMAIN th THEN KeyError("emergency_icu_strain")
        ELSE
          LET reasons ==
                (IF heat_resp_risk >= th["emergency_heat_risk"]
                 THEN <<"Heat-Respiratory Risk Critical">> ELSE <<>>)
                \o (IF surge_prob >= th["emergency_surge_prob"]
                    THEN <<"Surge Probability Critical">> ELSE <<>>)
          IN  IF reasons # <<>>
              THEN [value |-> "EMERGENCY", reason |-> JoinPlus(reasons)]
              ELSE AlertWarningStage(heat_resp_risk, surge_prob, combined, th)

compute_alert_level(heat_resp_risk, surge_prob, combined, icu_strain, thresholds) ==
    LET th == IF thresholds.given THEN thresholds.map ELSE DefaultThresholds
    IN  IF "emergency_heat_risk" \notin DOMAIN th THEN KeyError("emergency_heat_risk")
        ELSE IF "emergency_surge_prob" \notin DOMAIN th THEN KeyError("emergency_surge_prob")
        ELSE IF "emergency_icu_strain" \notin DOMAIN th THEN KeyError("emergency_icu_strain")
        ELSE
          LET reasons ==
                (IF heat_resp_risk >= th["emergency_heat_risk"]
                 THEN <<"Heat-Respiratory Risk Critical">> ELSE <<>>)
                \o (IF surge_prob >= th["emergency_surge_prob"]
                    THEN <<"Surge Probability Critical">> ELSE <<>>)
                \o (IF icu_strain >= th["emergency_icu_strain"]
                    THEN <<"ICU Strain Critical">> ELSE <<>>)
          IN  IF reasons # <<>>
              THEN [value |-> "EMERGENCY", reason |-> JoinPlus(reasons)]
              ELSE AlertWarningStage(heat_resp_risk, surge_prob, combined, th)

(***************************************************************************)
(* Data frames.  A DataFrame is the sequence of its rows in positional     *)
(* order; a row is a record of its columns plus `index`, its index label   *)
(* (pd.read_csv and pd.DataFrame(dict) give the labels 0, 1, 2, ...).      *)
(* A date is [kind, day]: pd.read_csv(parse_dates=["date"]) makes          *)
(* Timestamps, which strftime turns into strings.                          *)
(***************************************************************************)
Timestamp(day) == [kind |-> "Timestamp", day |-> day]

\* peak_date.strftime("%Y-%m-%d") under isinstance(peak_date, pd.Timestamp).
StrftimeIfTimestamp(date) ==
    IF date.kind = "Timestamp" THEN [kind |-> "str", day |-> date.day] ELSE date

\* A faulty reading of the latest row, for contrast: the first row, iloc[0].
Latest_first(df) == df[1]

\* df.iloc[-1] of a non-empty frame.
Latest(df) == df[Len(df)]

\* The columns of a non-empty frame are the fields of its rows.
HasColumns(df, cols) == cols \subseteq DOMAIN df[1]

\* df[col] as the sequence of its values.
Column(df, col) == [i \in 1..Len(df) |-> df[i][col]]

RECURSIVE RSum(_)
RSum(series) ==
    IF Len(series) = 0 THEN RatI(0) ELSE RAdd(series[1], RSum(Tail(series)))

\* Series.mean() of a non-empty series.
Mean(series) == RDiv(RSum(series), RatI(Len(series)))

(***************************************************************************)
(* identify_drivers                                                        *)
(***************************************************************************)
\* A faulty _pct_change, for contrast: a series needs three rows before any
\* change is reported.
_pct_change_needs_three(series) ==
    IF Len(series) < 3 THEN RatI(0)
    ELSE
      LET k == IMax(1, Len(series) \div 3)
          early == Mean(SubSeq(series, 1, k))
          late == Mean(SubSeq(series, Len(series) - k + 1, Len(series)))
      IN  IF early = RatI(0) THEN RatI(0)
          ELSE PyRoundTo(RMul(RDiv(RSub(late, early), early), RatI(100)), 10)

\* A faulty _pct_change, for contrast: the windows are halves of the series.
_pct_change_halves(series) ==
    IF Len(series) < 2 THEN RatI(0)
    ELSE
      LET k == IMax(1, Len(series) \div 2)
          early == Mean(SubSeq(series, 1, k))
          late == Mean(SubSeq(series, Len(series) - k + 1, Len(series)))
      IN  IF early = RatI(0) THEN RatI(0)
          ELSE PyRoundTo(RMul(RDiv(RSub(late, early), early), RatI(100)), 10)

_pct_change(series) ==
    IF Len(series) < 2 THEN RatI(0)
    ELSE
      LET k == IMax(1, Len(series) \div 3)
          early == Mean(SubSeq(series, 1, k))
          late == Mean(SubSeq(series, Len(series) - k + 1, Len(series)))
      IN  IF early = RatI(0) THEN RatI(0)
          ELSE PyRoundTo(RMul(RDiv(RSub(late, early), early), RatI(100)), 10)

RAbs(x) == [n |-> Abs(x.n), d |-> x.d]

\* The arrows of lines 186-232, by name: up, down, flat.
Direction(change) ==
    IF RGt(change, RatI(0)) THEN "up"
    ELSE IF RLt(change, RatI(0)) THEN "down" ELSE "flat"

\* f"{float(x):.1f}<unit>": the value to one decimal and its unit.
FormatValue(x, unit) == [number |-> PyRoundTo(x, 10), unit |-> unit]

\* One entry of drivers_scored; bonus is added when latest >= hazard.
Driver(name, unit, series, bonus, hazard) ==
    LET change == _pct_change(series)
        latest == series[Len(series)]
    IN  [name |-> name,
         value |-> FormatValue(latest, unit),
         change_pct |-> change,
         direction |-> Direction(change),
         score |-> RAdd(RAbs(change),
                        RatI(IF RGe(latest, RatI(hazard)) THEN bonus ELSE 0))]

\* Micro-signal entries carry no bonus.
MicroDriver(name, series) ==
    LET change == _pct_change(series)
    IN  [name |-> name,
         value |-> FormatValue(series[Len(series)], ""),
         change_pct |-> change,
         direction |-> Direction(change),
         score |-> RAbs(change)]

\* A faulty sort, for contrast: entries with equal scores come out in
\* reverse order (an ascending sort that is reversed afterwards).
SortByScoreDesc_reversed_ties(list) ==
    LET place(i) ==
          1 + Cardinality({j \in 1..Len(list) :
                             \/ RGt(list[j].score, list[i].score)
                             \/ j > i /\ list[j].score = list[i].score})
    IN  [p \in 1..Len(list) |-> list[CHOOSE i \in 1..Len(list) : place(i) = p]]

\* list.sort(key=score, reverse=True): stable, so entries with equal scores
\* keep their order.  The entry at position i lands after every entry with a
\* higher score and after the earlier entries with an equal score.
SortByScoreDesc(list) ==
    LET place(i) ==
          1 + Cardinality({j \in 1..Len(list) :
                             \/ RGt(list[j].score, list[i].score)
                             \/ j < i /\ list[j].score = list[i].score})
    IN  [p \in 1..Len(list) |-> list[CHOOSE i \in 1..Len(list) : place(i) = p]]

\* Both frames non-empty (the callers check: iloc[-1] raises otherwise).
identify_drivers(env, micro, top_n) ==
    LET drivers_scored ==
          << Driver("Daytime Temperature", "C", Column(env, "temp_c"), 20, 35),
             Driver("Night-time Temperature", "C", Column(env, "nighttime_temp_c"), 25, 22),
             Driver("PM2.5 Air Quality", " ug/m3", Column(env, "pm25_ugm3"), 20, 35),
             MicroDriver("Symptom Search Index", Column(micro, "symptom_search_index")),
             MicroDriver("Pharmacy Respiratory Sales", Column(micro, "pharmacy_visits_index")),
             MicroDriver("Clinic Respiratory Cases", Column(micro, "clinic_cases_index")) >>
        sorted == SortByScoreDesc(drivers_scored)
    IN  SubSeq(sorted, 1, IMin(top_n, Len(sorted)))

(***************************************************************************)
(* compute_all_kpis                                                        *)
(***************************************************************************)
\* A faulty _get_risk_level, for contrast: High begins at 50.
_get_risk_level_high_at_50(value) ==
    IF value >= 50 THEN "High" ELSE IF value >= 40 THEN "Med" ELSE "Low"

_get_risk_level(value) ==
    IF value >= 70 THEN "High" ELSE IF value >= 40 THEN "Med" ELSE "Low"

\* env_stress.idxmax(): the index label of the first row with the largest
\* temp_c + pm25_ugm3.
PeakIdx(env) ==
    LET stress(i) == RAdd(env[i].temp_c, env[i].pm25_ugm3)
        first == CHOOSE i \in 1..Len(env) :
                    /\ \A j \in 1..Len(env) : RGe(stress(i), stress(j))
                    /\ \A j \in 1..(i - 1) : RLt(stress(j), stress(i))
    IN  env[first].index

\* A faulty convergence flag, for contrast: the threshold is 0.70.
Convergence_high(combined) == RGe(combined, Rat(70, 100))

\* Line 303: convergence = combined >= 0.65
Convergence(combined) == RGe(combined, Rat(65, 100))

\* A faulty delta, for contrast: the fraction is rounded, not truncated.
delta_risk_rounded(heat_resp_risk) ==
    IMax(5, PyRound(RMul(RatI(heat_resp_risk), Rat(17, 100))))

\* Line 299: delta_risk = max(5, int(heat_resp_risk * 0.17))
delta_risk(heat_resp_risk) ==
    IMax(5, PyInt(RMul(RatI(heat_resp_risk), Rat(17, 100))))

\* Line 300: delta_surge = max(3, int(surge_prob * 0.09))
delta_surge(surge_prob) ==
    IMax(3, PyInt(RMul(RatI(surge_prob), Rat(9, 100))))

Raised(exception) == [status |-> "error", error |-> exception]

\* Lines 273-357, once the latest rows and the mean vulnerability are read.
\* now is datetime.now().
BuildKpiJson(env, micro, avg_vulnerability, now) ==
    LET latest_env == Latest(env)
        latest_micro == Latest(micro)
        temp_c == latest_env.temp_c
        nighttime_temp == latest_env.nighttime_temp_c
        pm25 == latest_env.pm25_ugm3
        heat_score == compute_heat_score(temp_c, nighttime_temp)
        pollution_score == compute_pollution_score(pm25)
        micro_signal_score ==
            compute_micro_signal_score(latest_micro.symptom_search_index,
                                       latest_micro.pharmacy_visits_index,
                                       latest_micro.clinic_cases_index)
        heat_resp_risk ==
            compute_heat_respiratory_risk_index(heat_score, pollution_score,
                                                avg_vulnerability, micro_signal_score)
        surge_prob ==
            compute_respiratory_surge_probability(micro_signal_score, pm25, nighttime_temp)
        combined == compute_combined_stress(heat_resp_risk, surge_prob)
        icu_strain == compute_icu_strain(heat_resp_risk, surge_prob)
        alert == compute_alert_level(heat_resp_risk, surge_prob, combined, icu_strain,
                                     NoThresholds)
        drivers == identify_drivers(env, micro, 5)
        peak_idx == PeakIdx(env)
    IN  \* df_env.iloc[peak_idx]: the label is used as a position
        IF peak_idx >= Len(env) THEN Raised("IndexError")
        \* ...["date"] (line 294): the first read of the date column
        ELSE IF ~HasColumns(env, {"date"}) THEN Raised("KeyError")
        ELSE
          [status |-> "ok", json |->
          [location |-> [country |-> "Turkey", city |-> "Ankara", district |-> "Altindag"],
           period |-> [start |-> StrftimeIfTimestamp(env[1].date),
                       end |-> StrftimeIfTimestamp(env[Len(env)].date),
                       forecast_days |-> 7],
           data_mode |-> "real (meteostat + aqicn based)",
           last_update |-> now,
           kpis |->
             [heat_respiratory_risk_index |->
                [value |-> heat_resp_risk,
                 level |-> _get_risk_level(heat_resp_risk),
                 delta_48h |-> delta_risk(heat_resp_risk)],
              respiratory_disease_surge_probability |->
                [value_pct |-> surge_prob,
                 delta_48h |-> delta_surge(surge_prob),
                 subtitle |-> "COPD/asthma exacerbations + LRTIs + respiratory distress trend"],
              combined_respiratory_stress_index |->
                [value |-> combined, convergence |-> Convergence(combined)],
              icu_dual_load_risk |->
                [icu_strain_pct |-> icu_strain,
                 peak_date |-> StrftimeIfTimestamp(env[peak_idx + 1].date)],
              alert_level |-> alert],
           drivers |-> drivers,
           sub_scores |->
             [heat_score |-> PyRoundTo(heat_score, 10),
              pollution_score |-> PyRoundTo(pollution_score, 10),
              micro_signal_score |-> PyRoundTo(micro_signal_score, 10),
              avg_vulnerability |-> PyRoundTo(avg_vulnerability, 10)]]]

\* [status |-> "ok", json |-> the record compute_all_kpis returns], or the
\* exception it raises:
\* iloc[-1] of an empty frame raises IndexError, and the mean of an empty
\* vulnerability column is NaN, which round() refuses (ValueError).
\* A column the frame lacks raises KeyError where it is first read (lines
\* 260-262, 266-268); humidity_pct and the micro-signal date are never read.
compute_all_kpis(env, micro, vuln, now) ==
    IF Len(env) = 0 THEN Raised("IndexError")
    ELSE IF ~HasColumns(env, {"temp_c", "nighttime_temp_c", "pm25_ugm3"})
    THEN Raised("KeyError")
    ELSE IF Len(micro) = 0 THEN Raised("IndexError")
    ELSE IF ~HasColumns(micro, {"symptom_search_index", "pharmacy_visits_index",
                                "clinic_cases_index"})
    THEN Raised("KeyError")
    ELSE IF Len(vuln) = 0 THEN Raised("ValueError")
    ELSE BuildKpiJson(env, micro, Mean(Column(vuln, "vulnerability_score")), now)

(***************************************************************************)
(* signal_fusion.py                                                        *)
(***************************************************************************)
\* (x).clip(lo, hi)
Clip(x, lo, hi) == RMax(RatI(lo), RMin(RatI(hi), x))

\* A faulty merge, for contrast: every pair of rows, whatever their dates.
MergeOnDate_cross(left, right) ==
    LET pairs ==
          [p \in 1..(Len(left) * Len(right)) |->
             <<left[((p - 1) \div Len(right)) + 1], right[((p - 1) % Len(right)) + 1]>>]
    IN  [p \in 1..Len(pairs) |->
           [c \in ((DOMAIN pairs[p][1]) \cup (DOMAIN pairs[p][2])) \ {"index"} |->
              IF c \in DOMAIN pairs[p][1] THEN pairs[p][1][c] ELSE pairs[p][2][c]]]

\* Line 20: pd.merge(left, right, on="date", how="inner"): the pairs of a
\* left row and a right row with equal dates, in the order of the left rows
\* and, for one left row, of the right rows; each carries the columns of
\* both (date is the only column they share) and a fresh index.
MergeOnDate(left, right) ==
    LET all == [p \in 1..(Len(left) * Len(right)) |->
                  <<left[((p - 1) \div Len(right)) + 1], right[((p - 1) % Len(right)) + 1]>>]
        pairs == SelectSeq(all, LAMBDA pr : pr[1].date = pr[2].date)
    IN  [p \in 1..Len(pairs) |->
           [c \in ((DOMAIN pairs[p][1]) \cup (DOMAIN pairs[p][2])) \ {"index"} |->
              IF c \in DOMAIN pairs[p][1] THEN pairs[p][1][c] ELSE pairs[p][2][c]]]

\* Lines 23-27: the daily environmental stress index.
EnvStressIndex(row) ==
    LET temp_norm == Clip(RMul(RDiv(RSub(row.temp_c, RatI(25)), RatI(20)), RatI(100)), 0, 100)
        night_norm ==
            Clip(RMul(RDiv(RSub(row.nighttime_temp_c, RatI(15)), RatI(15)), RatI(100)), 0, 100)
        pm25_norm == Clip(RMul(RDiv(RSub(row.pm25_ugm3, RatI(10)), RatI(70)), RatI(100)), 0, 100)
    IN  PyRoundTo(RAdd(RAdd(RMul(Rat(35, 100), temp_norm), RMul(Rat(30, 100), night_norm)),
                       RMul(Rat(35, 100), pm25_norm)), 10)

\* Lines 30-34: the daily population signal index.
PopSignalIndex(row) ==
    PyRoundTo(RAdd(RAdd(RMul(Rat(40, 100), row.symptom_search_index),
                        RMul(Rat(35, 100), row.pharmacy_visits_index)),
                   RMul(Rat(25, 100), row.clinic_cases_index)), 10)

\* df[col] = values: the row with one more column.
WithColumn(row, col, value) ==
    [c \in (DOMAIN row) \cup {col} |-> IF c = col THEN value ELSE row[c]]

\* Both frames have their columns (a frame of at least one row).
fuse_signals(env, micro) ==
    LET df == MergeOnDate(env, micro)
    IN  [p \in 1..Len(df) |->
           LET env_stress_index == EnvStressIndex(df[p])
               pop_signal_index == PopSignalIndex(df[p])
               fusion_score ==
                   PyRoundTo(RAdd(RMul(Rat(55, 100), env_stress_index),
                                  RMul(Rat(45, 100), pop_signal_index)), 10)
           IN  WithColumn(WithColumn(WithColumn(WithColumn(df[p],
                   "env_stress_index", env_stress_index),
                   "pop_signal_index", pop_signal_index),
                   "fusion_score", fusion_score),
                   "index", p - 1)]

(***************************************************************************)
(* validators.py, schema.py                                                *)
(***************************************************************************)
VALID_ALERT_LEVELS == <<"WATCH", "WARNING", "EMERGENCY">>

VALID_RISK_LEVELS == <<"High", "Med", "Low">>

\* x in list
InList(x, list) == \E i \in 1..Len(list) : list[i] = x

\* One error message with the value it quotes.
ErrorMsg(msg, value) == <<[msg |-> msg, value |-> value]>>

\* [f(k) for k in keys if k not in mapping], in order.
RECURSIVE MissingKeys(_, _, _)
MissingKeys(keys, mapping, prefix) ==
    IF Len(keys) = 0 THEN <<>>
    ELSE (IF keys[1] \in DOMAIN mapping THEN <<>>
          ELSE ErrorMsg(prefix, keys[1]))
         \o MissingKeys(Tail(keys), mapping, prefix)

\* Lines 70-73.
ValidateAlertLevel(kpis) ==
    IF "alert_level" \in DOMAIN kpis
    THEN LET v == IF "value" \in DOMAIN kpis.alert_level
                  THEN kpis.alert_level.value ELSE ""
         IN  IF ~InList(v, VALID_ALERT_LEVELS)
             THEN ErrorMsg("Invalid alert_level", v) ELSE <<>>
    ELSE <<>>

\* Lines 38-73: the checks under "kpis".
ValidateKpis(kpis) ==
    MissingKeys(<<"heat_respiratory_risk_index",
                  "respiratory_disease_surge_probability",
                  "combined_respiratory_stress_index",
                  "icu_dual_load_risk", "alert_level">>, kpis, "Missing kpis.")
    \o (IF "heat_respiratory_risk_index" \in DOMAIN kpis
        THEN LET hr == kpis.heat_respiratory_risk_index
                 v == IF "value" \in DOMAIN hr THEN hr.value ELSE -1
                 lvl == IF "level" \in DOMAIN hr THEN hr.level ELSE ""
             IN  (IF ~(0 <= v /\ v <= 100)
                  THEN ErrorMsg("heat_respiratory_risk_index.value out of range [0,100]", v)
                  ELSE <<>>)
                 \o (IF ~InList(lvl, VALID_RISK_LEVELS)
                     THEN ErrorMsg("Invalid risk level", lvl) ELSE <<>>)
        ELSE <<>>)
    \o (IF "respiratory_disease_surge_probability" \in DOMAIN kpis
        THEN LET sp == kpis.respiratory_disease_surge_probability
                 v == IF "value_pct" \in DOMAIN sp THEN sp.value_pct ELSE -1
             IN  IF ~(0 <= v /\ v <= 100)
                 THEN ErrorMsg("surge_probability.value_pct out of range [0,100]", v)
                 ELSE <<>>
        ELSE <<>>)
    \o (IF "combined_respiratory_stress_index" \in DOMAIN kpis
        THEN LET cs == kpis.combined_respiratory_stress_index
                 v == IF "value" \in DOMAIN cs THEN cs.value ELSE RatI(-1)
             IN  IF ~(RLe(RatI(0), v) /\ RLe(v, RatI(1)))
                 THEN ErrorMsg("combined_stress.value out of range [0,1]", v)
                 ELSE <<>>
        ELSE <<>>)
    \o ValidateAlertLevel(kpis)

\* The list of error messages; empty = valid.
validate_kpi_json(data) ==
    MissingKeys(<<"location", "period", "data_mode", "last_update", "kpis", "drivers">>,
                data, "Missing top-level key")
    \o (IF "location" \in DOMAIN data
        THEN MissingKeys(<<"country", "city", "district">>, data.location,
                         "Missing location.")
        ELSE <<>>)
    \o (IF "period" \in DOMAIN data
        THEN MissingKeys(<<"start", "end", "forecast_days">>, data.period,
                         "Missing period.")
        ELSE <<>>)
    \o (IF "kpis" \in DOMAIN data THEN ValidateKpis(data.kpis) ELSE <<>>)
    \o (IF "drivers" \in DOMAIN data
        THEN (IF DOMAIN data.drivers # 1..Len(data.drivers)
              THEN ErrorMsg("drivers must be a list", "") ELSE <<>>)
        ELSE <<>>)

(***************************************************************************)
(* Direct calls of the engine's functions (as tests/test_risk_engine.py    *)
(* makes them): a caller picks arguments, the function returns, the caller *)
(* drops the result.  call is [fn |-> "none"] between calls and            *)
(* [fn, args, ret] after a return.                                         *)
(***************************************************************************)
\* Magnitude of the far out-of-calibration inputs.
MaxMag == 1000

NoCall == [fn |-> "none"]

\* Arguments of _normalize: halves around zero and the two extremes.
NormalizeInputs == {Rat(k, 2) : k \in -5..5} \cup {RatI(-MaxMag), RatI(MaxMag)}

\* Readings in degrees C and ug/m3, on the data's 0.1 grid.
TempInputs == {RatI(-MaxMag), RatI(-10), RatI(0), RatI(10), RatI(25), Rat(305, 10),
               RatI(35), RatI(42), RatI(MaxMag)}
NightInputs == {RatI(-MaxMag), RatI(-10), RatI(0), RatI(10), RatI(18), Rat(225, 10),
                RatI(30), RatI(MaxMag)}
Pm25Inputs == {RatI(-MaxMag), RatI(0), RatI(5), RatI(8), RatI(10), Rat(155, 10),
               RatI(35), RatI(70), RatI(80), RatI(90), RatI(MaxMag)}

\* Sub-scores and micro-signal indices, inside and outside 0..100.
ScoreInputs == {RatI(-MaxMag), RatI(0), RatI(10), RatI(30), RatI(50), Rat(733, 10),
                RatI(100), RatI(MaxMag)}

\* Integer risk / surge arguments: all of 0..100, and some outside.
IndexInputs == {-MaxMag, -50, 150, MaxMag} \cup 0..100

\* The quadruples of compute_alert_level around the default thresholds.
AlertRiskInputs == {10, 54, 55, 60, 69, 70, 72, 84, 85, 90}
AlertSurgeInputs == {5, 30, 34, 35, 50, 54, 55, 69, 70, 75}
AlertCombinedInputs == {Rat(10, 100), Rat(45, 100), Rat(64, 100), Rat(65, 100),
                        Rat(67, 100), Rat(90, 100)}
AlertIcuInputs == {5, 10, 15, 29, 30, 35}

\* Two complete caller-supplied threshold sets, below and above the defaults.
LowThresholds ==
    [watch_heat_risk |-> 40, warning_heat_risk |-> 60, emergency_heat_risk |-> 80,
     watch_surge_prob |-> 25, warning_surge_prob |-> 45, emergency_surge_prob |-> 65,
     emergency_icu_strain |-> 25]
HighThresholds ==
    [watch_heat_risk |-> 60, warning_heat_risk |-> 75, emergency_heat_risk |-> 95,
     watch_surge_prob |-> 40, warning_surge_prob |-> 60, emergency_surge_prob |-> 80,
     emergency_icu_strain |-> 38]

\* A complete set whose levels are not in escalating order: nothing in the
\* code requires watch <= warning <= emergency.
UnorderedThresholds ==
    [watch_heat_risk |-> 75, warning_heat_risk |-> 55, emergency_heat_risk |-> 90,
     watch_surge_prob |-> 60, warning_surge_prob |-> 80, emergency_surge_prob |-> 35,
     emergency_icu_strain |-> 12]

\* Every mapping a caller can pass: a complete set, or one lacking some keys.
ThresholdMappings ==
    {[k \in K |-> full[k]] : K \in SUBSET ThresholdKeys,
                             full \in {LowThresholds, HighThresholds, UnorderedThresholds}}

\* The quadruples tried with a caller-supplied mapping.
CustomRiskInputs == {30, 50, 58, 72, 82, 97}
CustomSurgeInputs == {20, 30, 42, 57, 67, 85}
CustomCombinedInputs == {Rat(10, 100), Rat(70, 100)}
CustomIcuInputs == {10, 27, 33, 39}

\* What the caller holds after fn(args) returned ret.
Returned(fn, args, ret) == [fn |-> fn, args |-> args, ret |-> ret]

Call_normalize ==
    /\ call.fn = "none"
    /\ \E value \in NormalizeInputs, min_val \in NormalizeInputs, max_val \in NormalizeInputs :
           call' = Returned("_normalize",
                    [value |-> value, min_val |-> min_val, max_val |-> max_val],
                    _normalize(value, min_val, max_val))
    /\ UNCHANGED <<df_env, df_micro, df_vuln, kpi>>

Call_compute_heat_score ==
    /\ call.fn = "none"
    /\ \E temp_c \in TempInputs, nighttime_temp_c \in NightInputs :
           call' = Returned("compute_heat_score",
                    [temp_c |-> temp_c, nighttime_temp_c |-> nighttime_temp_c],
                    compute_heat_score(temp_c, nighttime_temp_c))
    /\ UNCHANGED <<df_env, df_micro, df_vuln, kpi>>

Call_compute_pollution_score ==
    /\ call.fn = "none"
    /\ \E pm25 \in Pm25Inputs :
           call' = Returned("compute_pollution_score", [pm25 |-> pm25],
                    compute_pollution_score(pm25))
    /\ UNCHANGED <<df_env, df_micro, df_vuln, kpi>>

Call_compute_micro_signal_score ==
    /\ call.fn = "none"
    /\ \E search \in ScoreInputs, pharmacy \in ScoreInputs, clinic \in ScoreInputs :
           call' = Returned("compute_micro_signal_score",
                    [search |-> search, pharmacy |-> pharmacy, clinic |-> clinic],
                    compute_micro_signal_score(search, pharmacy, clinic))
    /\ UNCHANGED <<df_env, df_micro, df_vuln, kpi>>

Call_compute_heat_respiratory_risk_index ==
    /\ call.fn = "none"
    /\ \E h \in ScoreInputs, p \in ScoreInputs, v \in ScoreInputs, m \in ScoreInputs :
           call' = Returned("compute_heat_respiratory_risk_index",
                    [heat_score |-> h, pollution_score |-> p,
                     vulnerability_score |-> v, micro_signal_score |-> m],
                    compute_heat_respiratory_risk_index(h, p, v, m))
    /\ UNCHANGED <<df_env, df_micro, df_vuln, kpi>>

Call_compute_respiratory_surge_probability ==
    /\ call.fn = "none"
    /\ \E m \in ScoreInputs, pm25 \in Pm25Inputs, night \in NightInputs :
           call' = Returned("compute_respiratory_surge_probability",
                    [micro_signal_score |-> m, pm25 |-> pm25, nighttime_temp |-> night],
                    compute_respiratory_surge_probability(m, pm25, night))
    /\ UNCHANGED <<df_env, df_micro, df_vuln, kpi>>

Call_compute_combined_stress ==
    /\ call.fn = "none"
    /\ \E risk \in IndexInputs, surge \in IndexInputs :
           call' = Returned("compute_combined_stress",
                    [heat_resp_risk |-> risk, surge_prob |-> surge],
                    compute_combined_stress(risk, surge))
    /\ UNCHANGED <<df_env, df_micro, df_vuln, kpi>>

Call_compute_icu_strain ==
    /\ call.fn = "none"
    /\ \E risk \in IndexInputs, surge \in IndexInputs :
           call' = Returned("compute_icu_strain",
                    [heat_resp_risk |-> risk, surge_prob |-> surge],
                    compute_icu_strain(risk, surge))
    /\ UNCHANGED <<df_env, df_micro, df_vuln, kpi>>

\* compute_alert_level(risk, surge, combined, icu): thresholds is None.
Call_compute_alert_level_default ==
    /\ call.fn = "none"
    /\ \E risk \in AlertRiskInputs, surge \in AlertSurgeInputs,
          combined \in AlertCombinedInputs, icu \in AlertIcuInputs :
           call' = Returned("compute_alert_level",
                    [heat_resp_risk |-> risk, surge_prob |-> surge, combined |-> combined,
                     icu_strain |-> icu, thresholds |-> NoThresholds],
                    compute_alert_level(risk, surge, combined, icu, NoThresholds))
    /\ UNCHANGED <<df_env, df_micro, df_vuln, kpi>>

\* compute_alert_level(risk, surge, combined, icu, thresholds=mapping).
Call_compute_alert_level_thresholds ==
    /\ call.fn = "none"
    /\ \E risk \in CustomRiskInputs, surge \in CustomSurgeInputs,
          combined \in CustomCombinedInputs, icu \in CustomIcuInputs,
          m \in ThresholdMappings :
           LET thresholds == [given |-> TRUE, map |-> m]
           IN  call' = Returned("compute_alert_level",
                        [heat_resp_risk |-> risk, surge_prob |-> surge,
                         combined |-> combined, icu_strain |-> icu,
                         thresholds |-> thresholds],
                        compute_alert_level(risk, surge, combined, icu, thresholds))
    /\ UNCHANGED <<df_env, df_micro, df_vuln, kpi>>

\* The caller drops the result.
Return ==
    /\ call.fn # "none"
    /\ call' = NoCall
    /\ UNCHANGED <<df_env, df_micro, df_vuln, kpi>>

NoKpi == [status |-> "none"]

InitFn ==
    /\ call = NoCall
    /\ df_env = <<>>
    /\ df_micro = <<>>
    /\ df_vuln = <<>>
    /\ kpi = NoKpi

NextFn ==
    \/ Call_normalize
    \/ Call_compute_heat_score
    \/ Call_compute_pollution_score
    \/ Call_compute_micro_signal_score
    \/ Call_compute_heat_respiratory_risk_index
    \/ Call_compute_respiratory_surge_probability
    \/ Call_compute_combined_stress
    \/ Call_compute_icu_strain
    \/ Call_compute_alert_level_default
    \/ Call_compute_alert_level_thresholds
    \/ Return

SpecFn == InitFn /\ [][NextFn]_vars

(***************************************************************************)
(* The aggregator's caller (app.py, tests): it loads the environmental      *)
(* series, then the micro-signal series, then the vulnerability table, row *)
(* by row and each of any length, calls compute_all_kpis, may have the     *)
(* record validated, and drops it before the inputs change again.          *)
(***************************************************************************)
\* Longest series and largest vulnerability table.
MaxRows == 2
MaxDistricts == 2
\* Index label of a frame's first row (0: the default RangeIndex; a frame
\* cut out of a longer one keeps its labels).
IndexStarts == {0, 1}

\* Daily readings: a warm day, a hot polluted day, and readings far outside
\* the calibration range on either side.
EnvReadings ==
    { [temp_c |-> Rat(335, 10), nighttime_temp_c |-> Rat(195, 10),
       humidity_pct |-> RatI(35), pm25_ugm3 |-> Rat(352, 10)],
      [temp_c |-> RatI(40), nighttime_temp_c |-> RatI(26),
       humidity_pct |-> RatI(20), pm25_ugm3 |-> RatI(75)],
      [temp_c |-> RatI(MaxMag), nighttime_temp_c |-> RatI(MaxMag),
       humidity_pct |-> RatI(10), pm25_ugm3 |-> RatI(MaxMag)],
      [temp_c |-> RatI(-MaxMag), nighttime_temp_c |-> RatI(-MaxMag),
       humidity_pct |-> RatI(60), pm25_ugm3 |-> RatI(-MaxMag)] }

\* Daily micro-signal indices: quiet, moderate, and outside 0..100.
MicroReadings ==
    { [symptom_search_index |-> RatI(10), pharmacy_visits_index |-> RatI(10),
       clinic_cases_index |-> RatI(10)],
      [symptom_search_index |-> Rat(505, 10), pharmacy_visits_index |-> RatI(45),
       clinic_cases_index |-> Rat(362, 10)],
      [symptom_search_index |-> RatI(150), pharmacy_visits_index |-> RatI(150),
       clinic_cases_index |-> RatI(150)] }

VulnerabilityScores == {RatI(20), Rat(855, 10)}

\* The top_n a caller asks identify_drivers for (the default is 5).
MaxTopN == 7
TopNs == 1..MaxTopN

\* The values datetime.now() may give.
Instants == {"2026-07-01T12:00:00", "2026-07-01T12:00:01"}

Loading == kpi.status = "none" /\ call.fn = "none"

AppendEnvRow ==
    /\ Loading
    /\ Len(df_micro) = 0
    /\ Len(df_vuln) = 0
    /\ Len(df_env) < MaxRows
    /\ \E r \in EnvReadings, start \in IndexStarts :
         LET n == Len(df_env)
             label == IF n = 0 THEN start ELSE df_env[n].index + 1
         IN  df_env' = Append(df_env,
                 [index |-> label, date |-> Timestamp(n + 1),
                  temp_c |-> r.temp_c, nighttime_temp_c |-> r.nighttime_temp_c,
                  humidity_pct |-> r.humidity_pct, pm25_ugm3 |-> r.pm25_ugm3])
    /\ UNCHANGED <<call, df_micro, df_vuln, kpi>>

AppendMicroRow ==
    /\ Loading
    /\ Len(df_vuln) = 0
    /\ Len(df_micro) < MaxRows
    /\ \E r \in MicroReadings :
         LET n == Len(df_micro)
         IN  df_micro' = Append(df_micro,
                 [index |-> n, date |-> Timestamp(n + 1),
                  symptom_search_index |-> r.symptom_search_index,
                  pharmacy_visits_index |-> r.pharmacy_visits_index,
                  clinic_cases_index |-> r.clinic_cases_index])
    /\ UNCHANGED <<call, df_env, df_vuln, kpi>>

\* The table lists its districts by ascending score: only the mean of the
\* column is ever read, so the order of the rows enters no computation.
AppendDistrict ==
    /\ Loading
    /\ Len(df_vuln) < MaxDistricts
    /\ \E v \in VulnerabilityScores :
         /\ Len(df_vuln) > 0 => RGe(v, df_vuln[Len(df_vuln)].vulnerability_score)
         /\ df_vuln' = Append(df_vuln,
             [index |-> Len(df_vuln), district_name |-> Len(df_vuln) + 1,
              vulnerability_score |-> v])
    /\ UNCHANGED <<call, df_env, df_micro, kpi>>

\* kpis = compute_all_kpis(df_env, df_micro, df_vuln)
ComputeAllKpis ==
    /\ Loading
    /\ \E now \in Instants :
         kpi' = compute_all_kpis(df_env, df_micro, df_vuln, now)
    /\ UNCHANGED <<call, df_env, df_micro, df_vuln>>

\* errors = validate_kpi_json(kpis)
Call_validate_kpi_json ==
    /\ kpi.status = "ok"
    /\ call.fn = "none"
    /\ call' = Returned("validate_kpi_json", [data |-> kpi.json],
                        validate_kpi_json(kpi.json))
    /\ UNCHANGED <<df_env, df_micro, df_vuln, kpi>>

\* drivers = identify_drivers(df_env, df_micro, top_n), called on its own.
\* The vulnerability table is not an argument: the call is made before the
\* table is loaded, which leaves out no behaviour of the function.
Call_identify_drivers ==
    /\ Loading
    /\ Len(df_env) > 0
    /\ Len(df_micro) > 0
    /\ Len(df_vuln) = 0
    /\ \E top_n \in TopNs :
         call' = Returned("identify_drivers", [top_n |-> top_n],
                          identify_drivers(df_env, df_micro, top_n))
    /\ UNCHANGED <<df_env, df_micro, df_vuln, kpi>>

\* The caller drops the record (or the exception) and what it made of it.
Discard ==
    /\ kpi.status # "none" \/ call.fn # "none"
    /\ kpi' = NoKpi
    /\ call' = NoCall
    /\ UNCHANGED <<df_env, df_micro, df_vuln>>

Init == InitFn

Next ==
    \/ AppendEnvRow
    \/ AppendMicroRow
    \/ AppendDistrict
    \/ ComputeAllKpis
    \/ Call_validate_kpi_json
    \/ Call_identify_drivers
    \/ Discard

Spec == Init /\ [][Next]_vars

(***************************************************************************)
(* A caller whose frames may not follow the schema (schema.py lines 79-85):*)
(* it loads an environmental frame, a micro-signal frame and a             *)
(* vulnerability table of at most one row each, the two series lacking up  *)
(* to MaxMissing of their columns, and calls compute_all_kpis.             *)
(***************************************************************************)
ENV_TIMESERIES_COLUMNS ==
    {"date", "temp_c", "nighttime_temp_c", "humidity_pct", "pm25_ugm3"}

MICRO_SIGNALS_COLUMNS ==
    {"date", "symptom_search_index", "pharmacy_visits_index", "clinic_cases_index"}

\* Most columns a frame lacks.
MaxMissing == 1

MissingSets(cols) == {m \in SUBSET cols : Cardinality(m) <= MaxMissing}

\* df.drop(columns=missing), on one row.
WithoutColumns(row, missing) == [c \in (DOMAIN row) \ missing |-> row[c]]

SchemaEnvFrames ==
    {<<>>} \cup
    { << WithoutColumns([index |-> 0, date |-> Timestamp(1),
                         temp_c |-> r.temp_c,
                         nighttime_temp_c |-> r.nighttime_temp_c,
                         humidity_pct |-> r.humidity_pct,
                         pm25_ugm3 |-> r.pm25_ugm3], m) >> :
        r \in EnvReadings, m \in MissingSets(ENV_TIMESERIES_COLUMNS) }

SchemaMicroFrames ==
    {<<>>} \cup
    { << WithoutColumns([index |-> 0, date |-> Timestamp(1),
                         symptom_search_index |-> r.symptom_search_index,
                         pharmacy_visits_index |-> r.pharmacy_visits_index,
                         clinic_cases_index |-> r.clinic_cases_index], m) >> :
        r \in MicroReadings, m \in MissingSets(MICRO_SIGNALS_COLUMNS) }

SchemaVulnTables ==
    {<<>>} \cup
    { << [index |-> 0, district_name |-> 1, vulnerability_score |-> v] >> :
        v \in VulnerabilityScores }

NothingLoaded == df_env = <<>> /\ df_micro = <<>> /\ df_vuln = <<>>

LoadFrames ==
    /\ Loading
    /\ NothingLoaded
    /\ \E env \in SchemaEnvFrames, micro \in SchemaMicroFrames,
          vuln \in SchemaVulnTables :
         /\ df_env' = env
         /\ df_micro' = micro
         /\ df_vuln' = vuln
    /\ UNCHANGED <<call, kpi>>

\* The caller lets go of its frames.
Unload ==
    /\ Loading
    /\ ~NothingLoaded
    /\ df_env' = <<>>
    /\ df_micro' = <<>>
    /\ df_vuln' = <<>>
    /\ UNCHANGED <<call, kpi>>

NextSchema ==
    \/ LoadFrames
    \/ Unload
    \/ ComputeAllKpis
    \/ Discard

SpecSchema == Init /\ [][NextSchema]_vars

(***************************************************************************)
(* A caller with a longer environmental series (the dashboard loads a week *)
(* or more of days): it loads up to MaxTrendRows days, a micro-signal      *)
(* series of one day, and asks identify_drivers for the drivers.  With six *)
(* rows and more the windows of _pct_change hold two rows each.            *)
(***************************************************************************)
MaxTrendRows == 6

\* Days of a winter-to-summer series: night frost, a mild night, a hot
\* polluted day.  Two nights of -2 and 2 average to exactly 0.
TrendReadings ==
    { [temp_c |-> RatI(4), nighttime_temp_c |-> RatI(-2),
       humidity_pct |-> RatI(50), pm25_ugm3 |-> RatI(0)],
      [temp_c |-> RatI(12), nighttime_temp_c |-> RatI(2),
       humidity_pct |-> RatI(40), pm25_ugm3 |-> RatI(15)],
      [temp_c |-> Rat(365, 10), nighttime_temp_c |-> RatI(23),
       humidity_pct |-> RatI(20), pm25_ugm3 |-> RatI(40)] }

AppendTrendEnvRow ==
    /\ Loading
    /\ Len(df_micro) = 0
    /\ Len(df_env) < MaxTrendRows
    /\ \E r \in TrendReadings :
         LET n == Len(df_env)
         IN  df_env' = Append(df_env,
                 [index |-> n, date |-> Timestamp(n + 1),
                  temp_c |-> r.temp_c, nighttime_temp_c |-> r.nighttime_temp_c,
                  humidity_pct |-> r.humidity_pct, pm25_ugm3 |-> r.pm25_ugm3])
    /\ UNCHANGED <<call, df_micro, df_vuln, kpi>>

AppendTrendMicroRow ==
    /\ Loading
    /\ Len(df_env) > 0
    /\ Len(df_micro) = 0
    /\ \E r \in MicroReadings :
         df_micro' = << [index |-> 0, date |-> Timestamp(1),
                         symptom_search_index |-> r.symptom_search_index,
                         pharmacy_visits_index |-> r.pharmacy_visits_index,
                         clinic_cases_index |-> r.clinic_cases_index] >>
    /\ UNCHANGED <<call, df_env, df_vuln, kpi>>

\* drivers = identify_drivers(df_env, df_micro, 6): all six candidates.
Call_identify_drivers_six ==
    /\ Loading
    /\ Len(df_env) > 0
    /\ Len(df_micro) > 0
    /\ call' = Returned("identify_drivers", [top_n |-> 6],
                        identify_drivers(df_env, df_micro, 6))
    /\ UNCHANGED <<df_env, df_micro, df_vuln, kpi>>

NextTrend ==
    \/ AppendTrendEnvRow
    \/ AppendTrendMicroRow
    \/ Call_identify_drivers_six
    \/ Discard

SpecTrend == Init /\ [][NextTrend]_vars

(***************************************************************************)
(* A caller with one day of each input, the readings and the vulnerability *)
(* score drawn from a grid, so that the risk index and the surge           *)
(* probability of the record sweep their ranges independently of each      *)
(* other.                                                                  *)
(***************************************************************************)
\* A cool clean day, a warm day, a hot polluted day, a hot clean day with a
\* cool night.
SweepEnvReadings ==
    { [temp_c |-> RatI(20), nighttime_temp_c |-> RatI(10),
       humidity_pct |-> RatI(50), pm25_ugm3 |-> RatI(10)],
      [temp_c |-> Rat(335, 10), nighttime_temp_c |-> Rat(195, 10),
       humidity_pct |-> RatI(35), pm25_ugm3 |-> Rat(352, 10)],
      [temp_c |-> RatI(40), nighttime_temp_c |-> RatI(26),
       humidity_pct |-> RatI(20), pm25_ugm3 |-> RatI(75)],
      [temp_c |-> RatI(42), nighttime_temp_c |-> RatI(12),
       humidity_pct |-> RatI(15), pm25_ugm3 |-> RatI(12)] }

\* The three micro-signal indices at the same level: 0, 5, ..., 100.
SweepMicroLevels == {5 * i : i \in 0..20}

\* District scores 0, 4, ..., 100, and two far above.
SweepVulnerabilityScores == {4 * i : i \in 0..25} \cup {200, 300}

LoadDay ==
    /\ Loading
    /\ NothingLoaded
    /\ \E r \in SweepEnvReadings, m \in SweepMicroLevels, v \in SweepVulnerabilityScores :
         /\ df_env' = << [index |-> 0, date |-> Timestamp(1),
                          temp_c |-> r.temp_c, nighttime_temp_c |-> r.nighttime_temp_c,
                          humidity_pct |-> r.humidity_pct, pm25_ugm3 |-> r.pm25_ugm3] >>
         /\ df_micro' = << [index |-> 0, date |-> Timestamp(1),
                            symptom_search_index |-> RatI(m),
                            pharmacy_visits_index |-> RatI(m),
                            clinic_cases_index |-> RatI(m)] >>
         /\ df_vuln' = << [index |-> 0, district_name |-> 1,
                           vulnerability_score |-> RatI(v)] >>
    /\ UNCHANGED <<call, kpi>>

NextSweep ==
    \/ LoadDay
    \/ Unload
    \/ ComputeAllKpis
    \/ Discard

SpecSweep == Init /\ [][NextSweep]_vars

(***************************************************************************)
(* The trends page (pages.py lines 233, 306): it holds an environmental    *)
(* and a micro-signal series, each of at least one day, whose dates need   *)
(* not be the same, need not be in order and may repeat, and fuses them.   *)
(***************************************************************************)
\* Longest series fused, and the last calendar day.
MaxFuseRows == 3
MaxDay == 3
Days == 1..MaxDay

\* The readings of a calendar day.
EnvOn(day) ==
    [temp_c |-> RatI(24 + 6 * day), nighttime_temp_c |-> Rat(125 + 35 * day, 10),
     humidity_pct |-> RatI(40), pm25_ugm3 |-> RatI(20 * day)]

MicroOn(day) ==
    [symptom_search_index |-> RatI(15 * day), pharmacy_visits_index |-> Rat(105 * day, 10),
     clinic_cases_index |-> RatI(8 * day)]

AppendFuseEnvRow ==
    /\ Loading
    /\ Len(df_micro) = 0
    /\ Len(df_env) < MaxFuseRows
    /\ \E day \in Days :
         LET r == EnvOn(day)
         IN  df_env' = Append(df_env,
                 [index |-> Len(df_env), date |-> Timestamp(day),
                  temp_c |-> r.temp_c, nighttime_temp_c |-> r.nighttime_temp_c,
                  humidity_pct |-> r.humidity_pct, pm25_ugm3 |-> r.pm25_ugm3])
    /\ UNCHANGED <<call, df_micro, df_vuln, kpi>>

AppendFuseMicroRow ==
    /\ Loading
    /\ Len(df_env) > 0
    /\ Len(df_micro) < MaxFuseRows
    /\ \E day \in Days :
         LET r == MicroOn(day)
         IN  df_micro' = Append(df_micro,
                 [index |-> Len(df_micro), date |-> Timestamp(day),
                  symptom_search_index |-> r.symptom_search_index,
                  pharmacy_visits_index |-> r.pharmacy_visits_index,
                  clinic_cases_index |-> r.clinic_cases_index])
    /\ UNCHANGED <<call, df_env, df_vuln, kpi>>

\* df_fused = fuse_signals(df_env, df_micro)
Call_fuse_signals ==
    /\ Loading
    /\ Len(df_env) > 0
    /\ Len(df_micro) > 0
    /\ call' = Returned("fuse_signals", [rows |-> Len(df_env)],
                        fuse_signals(df_env, df_micro))
    /\ UNCHANGED <<df_env, df_micro, df_vuln, kpi>>

NextFuse ==
    \/ AppendFuseEnvRow
    \/ AppendFuseMicroRow
    \/ Call_fuse_signals
    \/ Discard

SpecFuse == Init /\ [][NextFuse]_vars

(***************************************************************************)
(* Claims about the alert classifier                                       *)
(***************************************************************************)
AlertLevels == {"NORMAL", "WATCH", "WARNING", "EMERGENCY"}

AlertCalled == call.fn = "compute_alert_level"

\* The level the threshold table th assigns to a quadruple, highest severity
\* first, as section 4.9 of the specification words it.
TableLevel(risk, surge, combined, icu, th) ==
    IF risk >= th.emergency_heat_risk \/ surge >= th.emergency_surge_prob
       \/ icu >= th.emergency_icu_strain
    THEN "EMERGENCY"
    ELSE IF risk >= th.warning_heat_risk \/ surge >= th.warning_surge_prob
            \/ RGe(combined, Rat(65, 100))
    THEN "WARNING"
    ELSE IF risk >= th.watch_heat_risk \/ surge >= th.watch_surge_prob
    THEN "WATCH"
    ELSE "NORMAL"

AlertArgsAre(risk, surge, combined, icu) ==
    /\ call.args.heat_resp_risk = risk
    /\ call.args.surge_prob = surge
    /\ call.args.combined = combined
    /\ call.args.icu_strain = icu

\* C1: with the built-in default thresholds compute_alert_level returns, for
\* every quadruple, exactly one level, chosen highest severity first:
\* EMERGENCY iff risk >= 85 or surge >= 70 or icu >= 30; otherwise WARNING iff
\* risk >= 70 or surge >= 55 or combined >= 0.65; otherwise WATCH iff
\* risk >= 55 or surge >= 35; otherwise NORMAL.  (90,75,0.9,35) is EMERGENCY,
\* (72,50,0.67,15) WARNING, (60,30,0.45,10) WATCH and (10,5,0.1,5) NORMAL.
C1_AlertLevelDefault ==
    (AlertCalled /\ ~call.args.thresholds.given) =>
        LET risk == call.args.heat_resp_risk
            surge == call.args.surge_prob
            combined == call.args.combined
            icu == call.args.icu_strain
            emergency == risk >= 85 \/ surge >= 70 \/ icu >= 30
            warning == risk >= 70 \/ surge >= 55 \/ RGe(combined, Rat(65, 100))
            watch == risk >= 55 \/ surge >= 35
        IN  /\ ~IsError(call.ret)
            /\ call.ret.value \in AlertLevels
            /\ (call.ret.value = "EMERGENCY") <=> emergency
            /\ (call.ret.value = "WARNING") <=> (~emergency /\ warning)
            /\ (call.ret.value = "WATCH") <=> (~emergency /\ ~warning /\ watch)
            /\ (call.ret.value = "NORMAL") <=> (~emergency /\ ~warning /\ ~watch)
            /\ AlertArgsAre(90, 75, Rat(90, 100), 35) => call.ret.value = "EMERGENCY"
            /\ AlertArgsAre(72, 50, Rat(67, 100), 15) => call.ret.value = "WARNING"
            /\ AlertArgsAre(60, 30, Rat(45, 100), 10) => call.ret.value = "WATCH"
            /\ AlertArgsAre(10, 5, Rat(10, 100), 5) => call.ret.value = "NORMAL"

\* C1 witness: the default classifier has returned EMERGENCY on ICU strain alone.
C1_Witness ==
    /\ AlertCalled
    /\ ~call.args.thresholds.given
    /\ call.args.heat_resp_risk = 60
    /\ call.args.surge_prob = 30
    /\ call.args.icu_strain = 30
    /\ ~IsError(call.ret)
    /\ call.ret.value = "EMERGENCY"

\* C2: thresholds are overridable only as a complete set: a mapping lacking any
\* of the seven keys makes the call fail for every quadruple, and a complete
\* mapping is classified by its own values only.
C2_ThresholdsCompleteOrError ==
    (AlertCalled /\ call.args.thresholds.given) =>
        LET m == call.args.thresholds.map
        IN  IF DOMAIN m # ThresholdKeys
            THEN IsError(call.ret)
            ELSE /\ ~IsError(call.ret)
                 /\ call.ret.value =
                      TableLevel(call.args.heat_resp_risk, call.args.surge_prob,
                                 call.args.combined, call.args.icu_strain, m)

(***************************************************************************)
(* Claims about the record compute_all_kpis returns                        *)
(***************************************************************************)
\* lo <= x <= hi, for a rational x and integers lo, hi.
InRange(x, lo, hi) == RGe(x, RatI(lo)) /\ RLe(x, RatI(hi))

\* The three frames are non-empty and compute_all_kpis has been called on them.
KpiComputed ==
    /\ kpi.status # "none"
    /\ Len(df_env) > 0
    /\ Len(df_micro) > 0
    /\ Len(df_vuln) > 0

\* C3: for every non-empty environmental series, micro-signal series and
\* vulnerability table, whatever the magnitude of the readings, the record
\* compute_all_kpis returns has an integer risk index in [0,100], an integer
\* surge probability in [0,100], a combined stress in [0,1], an integer ICU
\* strain in [0,40] and an alert level that is one of NORMAL, WATCH, WARNING,
\* EMERGENCY; with the default index labels 0, 1, 2, ... a record is returned.
C3_KpiRanges ==
    KpiComputed =>
        /\ (df_env[1].index = 0) => kpi.status = "ok"
        /\ (kpi.status = "ok") =>
             LET k == kpi.json.kpis
             IN  /\ k.heat_respiratory_risk_index.value \in 0..100
                 /\ k.respiratory_disease_surge_probability.value_pct \in 0..100
                 /\ InRange(k.combined_respiratory_stress_index.value, 0, 1)
                 /\ k.icu_dual_load_risk.icu_strain_pct \in 0..40
                 /\ k.alert_level.value \in AlertLevels

\* C3 witness: a record computed from readings far above the calibration
\* range and micro-signal indices above 100, with every index at its ceiling.
C3_Witness ==
    /\ KpiComputed
    /\ kpi.status = "ok"
    /\ df_env[Len(df_env)].temp_c = RatI(MaxMag)
    /\ RGt(df_micro[Len(df_micro)].symptom_search_index, RatI(100))
    /\ kpi.json.kpis.heat_respiratory_risk_index.value = 100
    /\ kpi.json.kpis.respiratory_disease_surge_probability.value_pct = 100
    /\ kpi.json.kpis.combined_respiratory_stress_index.value = RatI(1)
    /\ kpi.json.kpis.icu_dual_load_risk.icu_strain_pct = 40

\* C4: every record compute_all_kpis returns has alert_level.value in
\* {WATCH, WARNING, EMERGENCY}, and validate_kpi_json returns the empty list
\* of errors for it.
C4_AlertLevelValid ==
    /\ (KpiComputed /\ kpi.status = "ok") =>
         kpi.json.kpis.alert_level.value \in {"WATCH", "WARNING", "EMERGENCY"}
    /\ (call.fn = "validate_kpi_json") => call.ret = <<>>

(***************************************************************************)
(* Claims about normalisation, the sub-scores and the composite indices    *)
(***************************************************************************)
\* C5: for all value, min and max, _normalize(value, min, max) lies in
\* [0,100], equals the linear rescale 100*(value-min)/(max-min) whenever that
\* lies in [0,100], and is exactly 50 when min = max.
C5_NormalizeRange ==
    (call.fn = "_normalize") =>
        LET value == call.args.value
            lo == call.args.min_val
            hi == call.args.max_val
        IN  /\ InRange(call.ret, 0, 100)
            /\ (lo = hi) => call.ret = RatI(50)
            /\ (lo # hi) =>
                 LET linear == Rat(100 * (value.n * lo.d - lo.n * value.d) * hi.d,
                                   (hi.n * lo.d - lo.n * hi.d) * value.d)
                 IN  InRange(linear, 0, 100) => call.ret = linear

\* C5 witness: _normalize has clamped a value above max (min < max) to 100.
C5_Witness ==
    /\ call.fn = "_normalize"
    /\ RLt(call.args.min_val, call.args.max_val)
    /\ RGt(call.args.value, call.args.max_val)
    /\ call.ret = RatI(100)

\* C6: called directly with inputs of any magnitude, compute_heat_score and
\* compute_pollution_score return a value in [0,100], the risk index and the
\* surge probability an integer in [0,100], compute_icu_strain an integer in
\* [0,40].
C6_ScoresInRange ==
    /\ (call.fn = "compute_heat_score") => InRange(call.ret, 0, 100)
    /\ (call.fn = "compute_pollution_score") => InRange(call.ret, 0, 100)
    /\ (call.fn = "compute_heat_respiratory_risk_index") => call.ret \in 0..100
    /\ (call.fn = "compute_respiratory_surge_probability") => call.ret \in 0..100
    /\ (call.fn = "compute_icu_strain") => call.ret \in 0..40

\* C6 witness: compute_icu_strain has returned its ceiling for arguments far
\* above 0..100.
C6_Witness ==
    /\ call.fn = "compute_icu_strain"
    /\ call.args.heat_resp_risk = MaxMag
    /\ call.args.surge_prob = MaxMag
    /\ call.ret = 40

\* C7: regardless of input magnitude compute_micro_signal_score returns a
\* value in [0,100] and compute_combined_stress a value in [0,1], and the
\* sub_scores.micro_signal_score of a KPI record is in [0,100].
C7_MicroCombinedInRange ==
    /\ (call.fn = "compute_micro_signal_score") => InRange(call.ret, 0, 100)
    /\ (call.fn = "compute_combined_stress") => InRange(call.ret, 0, 1)
    /\ (kpi.status = "ok") => InRange(kpi.json.sub_scores.micro_signal_score, 0, 100)

\* C8: the risk index is 0.35*heat + 0.25*pollution + 0.25*vulnerability +
\* 0.15*micro rounded to the nearest integer and clamped to [0,100]; it is 100
\* for (100,100,100,100) and 0 for (0,0,0,0), and for sub-scores in [0,100] it
\* differs from the unrounded weighted sum by at most 0.5.
C8_RiskIndexRounding ==
    (call.fn = "compute_heat_respiratory_risk_index") =>
        LET h == call.args.heat_score
            p == call.args.pollution_score
            v == call.args.vulnerability_score
            m == call.args.micro_signal_score
            w == RAdd(RAdd(Rat(7 * h.n, 20 * h.d), Rat(p.n, 4 * p.d)),
                      RAdd(Rat(v.n, 4 * v.d), Rat(3 * m.n, 20 * m.d)))
            f == w.n \div w.d
            all(x) == h = RatI(x) /\ p = RatI(x) /\ v = RatI(x) /\ m = RatI(x)
        IN  /\ \E n \in {f, f + 1} :
                 /\ 2 * Abs(n * w.d - w.n) <= w.d
                 /\ call.ret = (IF n < 0 THEN 0 ELSE IF n > 100 THEN 100 ELSE n)
            /\ all(100) => call.ret = 100
            /\ all(0) => call.ret = 0
            /\ (\A x \in {h, p, v, m} : InRange(x, 0, 100)) =>
                 2 * Abs(call.ret * w.d - w.n) <= w.d

\* C8 witness: for (10,0,0,0) the weighted sum 0.35 * 10 = 3.5, a tie, has
\* been rounded to the even neighbour 4.
C8_Witness ==
    /\ call.fn = "compute_heat_respiratory_risk_index"
    /\ call.args.heat_score = RatI(10)
    /\ call.args.pollution_score = RatI(0)
    /\ call.args.vulnerability_score = RatI(0)
    /\ call.args.micro_signal_score = RatI(0)
    /\ call.ret = 4

\* C9: monotonicity.  Holding the other inputs fixed, a higher daytime or
\* night-time temperature never lowers compute_heat_score, a higher pm25 never
\* lowers compute_pollution_score, and a higher sub-score never lowers
\* compute_heat_respiratory_risk_index (rounding and clamping included).
C9_Monotone ==
    /\ (call.fn = "compute_heat_score") =>
         /\ \A t2 \in TempInputs :
              RGe(t2, call.args.temp_c) =>
                RGe(compute_heat_score(t2, call.args.nighttime_temp_c), call.ret)
         /\ \A n2 \in NightInputs :
              RGe(n2, call.args.nighttime_temp_c) =>
                RGe(compute_heat_score(call.args.temp_c, n2), call.ret)
    /\ (call.fn = "compute_pollution_score") =>
         \A pm2 \in Pm25Inputs :
            RGe(pm2, call.args.pm25) => RGe(compute_pollution_score(pm2), call.ret)
    /\ (call.fn = "compute_heat_respiratory_risk_index") =>
         LET h == call.args.heat_score
             p == call.args.pollution_score
             v == call.args.vulnerability_score
             m == call.args.micro_signal_score
         IN  \A x \in ScoreInputs :
               /\ RGe(x, h) => compute_heat_respiratory_risk_index(x, p, v, m) >= call.ret
               /\ RGe(x, p) => compute_heat_respiratory_risk_index(h, x, v, m) >= call.ret
               /\ RGe(x, v) => compute_heat_respiratory_risk_index(h, p, x, m) >= call.ret
               /\ RGe(x, m) => compute_heat_respiratory_risk_index(h, p, v, x) >= call.ret

\* C9 witness: a heat score strictly inside (0,100) that a warmer night raises.
C9_Witness ==
    /\ call.fn = "compute_heat_score"
    /\ RGt(call.ret, RatI(0))
    /\ \E n2 \in NightInputs :
         /\ RGt(n2, call.args.nighttime_temp_c)
         /\ RGt(compute_heat_score(call.args.temp_c, n2), call.ret)

\* C10 (as claimed): the pollution score is strictly increasing: for any two
\* pm25 inputs a < b, compute_pollution_score(a) < compute_pollution_score(b).
C10_PollutionStrict ==
    (call.fn = "compute_pollution_score") =>
        \A b \in Pm25Inputs :
            RLt(call.args.pm25, b) => RLt(call.ret, compute_pollution_score(b))

\* C10 (amended): for any two pm25 inputs a < b the score never decreases, and
\* it strictly increases unless both lie at or below 10 (score 0) or both at or
\* above 80 (score 100).
C10_PollutionStrictInRange ==
    (call.fn = "compute_pollution_score") =>
        \A b \in Pm25Inputs :
            RLt(call.args.pm25, b) =>
                /\ RLe(call.ret, compute_pollution_score(b))
                /\ (RLt(call.args.pm25, RatI(80)) /\ RGt(b, RatI(10))) =>
                     RLt(call.ret, compute_pollution_score(b))
                /\ RLe(b, RatI(10)) =>
                     call.ret = RatI(0) /\ compute_pollution_score(b) = RatI(0)
                /\ RGe(call.args.pm25, RatI(80)) =>
                     call.ret = RatI(100) /\ compute_pollution_score(b) = RatI(100)

\* C10 witness: a score for a pm25 inside the calibration range [10,80] that
\* is below the score of a larger pm25 of that range.
C10_Witness ==
    /\ call.fn = "compute_pollution_score"
    /\ call.args.pm25 = RatI(35)
    /\ RLt(call.ret, compute_pollution_score(RatI(70)))
    /\ RLt(compute_pollution_score(RatI(70)), compute_pollution_score(RatI(80)))

(***************************************************************************)
(* Claims about the combined stress, convergence and the ICU strain        *)
(***************************************************************************)
\* C11: for integer risk and surge in 0..100, compute_combined_stress equals
\* (6*risk + 4*surge)/1000 rounded to hundredths, where no tie occurs because
\* 6*risk + 4*surge is even; it lies in [0,1]; and
\* compute_combined_stress(100, 0) is exactly 0.60.
C11_CombinedStressValue ==
    (/\ call.fn = "compute_combined_stress"
     /\ call.args.heat_resp_risk \in 0..100
     /\ call.args.surge_prob \in 0..100) =>
        LET k == 6 * call.args.heat_resp_risk + 4 * call.args.surge_prob
        IN  /\ k % 10 # 5
            /\ \E h \in 0..100 :
                 /\ Abs(10 * h - k) < 5
                 /\ call.ret = Rat(h, 100)
            /\ InRange(call.ret, 0, 1)
            /\ (call.args.heat_resp_risk = 100 /\ call.args.surge_prob = 0) =>
                 call.ret = Rat(60, 100)

\* C11 witness: compute_combined_stress(1, 0) = 0.006 has been rounded up to
\* 0.01.
C11_Witness ==
    /\ call.fn = "compute_combined_stress"
    /\ call.args.heat_resp_risk = 1
    /\ call.args.surge_prob = 0
    /\ call.ret = Rat(1, 100)

\* C12: in every record compute_all_kpis returns, the convergence flag is
\* true exactly when the record's combined stress is >= 0.65, which for the
\* integer risk and surge of the same record is exactly when
\* 6*risk + 4*surge >= 645.
C12_ConvergenceFlag ==
    (kpi.status = "ok") =>
        LET k == kpi.json.kpis
            risk == k.heat_respiratory_risk_index.value
            surge == k.respiratory_disease_surge_probability.value_pct
            flag == k.combined_respiratory_stress_index.convergence
        IN  /\ flag \in BOOLEAN
            /\ flag <=> RGe(k.combined_respiratory_stress_index.value, Rat(65, 100))
            /\ flag <=> (6 * risk + 4 * surge >= 645)

\* C12 witness: a record whose convergence flag is set by the surge
\* probability while the risk index is Med (risk 49, surge 100, combined 0.69).
C12_Witness ==
    /\ kpi.status = "ok"
    /\ kpi.json.kpis.combined_respiratory_stress_index.convergence = TRUE
    /\ kpi.json.kpis.heat_respiratory_risk_index.value = 49
    /\ kpi.json.kpis.combined_respiratory_stress_index.value = Rat(69, 100)

\* C13: compute_icu_strain(risk, surge) is 5 + 0.25*risk + 0.15*surge rounded
\* to the nearest integer and clamped to [0,40]: for integer risk and surge in
\* 0..100 the result is within 0.5 of the linear value whenever that value is
\* at most 40, is exactly 40 whenever it is at least 40, is never below 5, and
\* never decreases when risk or surge increases.
C13_IcuStrainLinear ==
    (/\ call.fn = "compute_icu_strain"
     /\ call.args.heat_resp_risk \in 0..100
     /\ call.args.surge_prob \in 0..100) =>
        LET risk == call.args.heat_resp_risk
            surge == call.args.surge_prob
            \* 20 times the linear value
            lin20 == 100 + 5 * risk + 3 * surge
        IN  /\ (lin20 <= 800) => Abs(20 * call.ret - lin20) <= 10
            /\ (lin20 >= 800) => call.ret = 40
            /\ call.ret >= 5
            /\ call.ret <= 40
            /\ \A x \in 0..100 :
                 /\ (x >= risk) => compute_icu_strain(x, surge) >= call.ret
                 /\ (x >= surge) => compute_icu_strain(risk, x) >= call.ret

\* C13 witness: compute_icu_strain(100, 70), whose linear value 40.5 is above
\* the ceiling, has returned 40.
C13_Witness ==
    /\ call.fn = "compute_icu_strain"
    /\ call.args.heat_resp_risk = 100
    /\ call.args.surge_prob = 70
    /\ call.ret = 40

(***************************************************************************)
(* Claims about identify_drivers                                           *)
(***************************************************************************)
DriversCalled == call.fn = "identify_drivers"

\* C14: for every non-empty pair of series and every requested top_n >= 1,
\* identify_drivers returns a list with at least top_n entries.
C14_AtLeastTopN ==
    (DriversCalled /\ call.args.top_n >= 1) => Len(call.ret) >= call.args.top_n

\* The series a driver entry is computed from.
SeriesOf(name) ==
    CASE name = "Daytime Temperature" -> Column(df_env, "temp_c")
      [] name = "Night-time Temperature" -> Column(df_env, "nighttime_temp_c")
      [] name = "PM2.5 Air Quality" -> Column(df_env, "pm25_ugm3")
      [] name = "Symptom Search Index" -> Column(df_micro, "symptom_search_index")
      [] name = "Pharmacy Respiratory Sales" -> Column(df_micro, "pharmacy_visits_index")
      [] name = "Clinic Respiratory Cases" -> Column(df_micro, "clinic_cases_index")

TwoRowSeries == Len(df_env) = 2 /\ Len(df_micro) = 2

\* C15 (as claimed): driver ranking on any two-row environmental and
\* micro-signal series returns six entries, each with change_pct = 0.0.
C15_TwoRowZeroChange ==
    (DriversCalled /\ TwoRowSeries) =>
        /\ Len(call.ret) = 6
        /\ \A i \in 1..Len(call.ret) : call.ret[i].change_pct = RatI(0)

\* C15 (amended): on two-row series identify_drivers returns min(top_n, 6)
\* entries (six only when top_n >= 6), and the change_pct of each entry is
\* the percentage change from the first row's value to the second row's,
\* 100 * (second - first) / first, to one decimal, for a non-zero first
\* value; it is 0.0 exactly when that change rounds to zero.
C15_TwoRowChange ==
    (DriversCalled /\ TwoRowSeries) =>
        /\ Len(call.ret) = IMin(call.args.top_n, 6)
        /\ \A i \in 1..Len(call.ret) :
             LET series == SeriesOf(call.ret[i].name)
                 first == series[1]
                 second == series[2]
                 change == call.ret[i].change_pct
             IN  (first # RatI(0)) =>
                   LET exact == RMul(RDiv(RSub(second, first), first), RatI(100))
                   IN  /\ RLe(RAbs(RSub(change, exact)), Rat(5, 100))
                       /\ RMul(change, RatI(10)).d = 1
                       /\ (change = RatI(0)) <=>
                            RLe(RAbs(exact), Rat(5, 100))

\* C15 witness: on two-row series, a call with top_n >= 6 has returned six
\* entries, the daytime temperature (33.5 then 40.0) with change_pct 19.4.
C15_Witness ==
    /\ DriversCalled
    /\ TwoRowSeries
    /\ Len(call.ret) = 6
    /\ \E i \in 1..6 :
         /\ call.ret[i].name = "Daytime Temperature"
         /\ df_env[1].temp_c = Rat(335, 10)
         /\ df_env[2].temp_c = RatI(40)
         /\ call.ret[i].change_pct = Rat(194, 10)

(***************************************************************************)
(* Claims about compute_all_kpis as a whole                                *)
(***************************************************************************)
\* The environmental or the micro-signal series has no rows or lacks one of
\* its expected columns.
InvalidInput ==
    \/ Len(df_env) = 0
    \/ Len(df_micro) = 0
    \/ ~HasColumns(df_env, ENV_TIMESERIES_COLUMNS)
    \/ ~HasColumns(df_micro, MICRO_SIGNALS_COLUMNS)

\* C16: compute_all_kpis is all-or-nothing on invalid input: if either series
\* has zero rows, or any expected column of the environmental series or of
\* the micro-signal series is absent, the call fails with an error and
\* returns no KPI record.
C16_AllOrNothing ==
    (kpi.status # "none" /\ InvalidInput) => kpi.status = "error"

\* C17: compute_all_kpis is a pure, deterministic transform: a call leaves
\* the two series and the vulnerability table unchanged, and any two
\* invocations on the same inputs return the same record in every field
\* (the record a call returns is the one every other call on these frames
\* returns, whatever the moment of the call).
C17_PureDeterministic ==
    [][(kpi.status = "none" /\ kpi'.status = "ok") =>
          /\ df_env' = df_env
          /\ df_micro' = df_micro
          /\ df_vuln' = df_vuln
          /\ \A now \in Instants :
               compute_all_kpis(df_env, df_micro, df_vuln, now) = kpi']_vars

\* The fields of a record that C18 is about.
Scoring(json) ==
    [risk |-> json.kpis.heat_respiratory_risk_index.value,
     surge |-> json.kpis.respiratory_disease_surge_probability.value_pct,
     combined |-> json.kpis.combined_respiratory_stress_index.value,
     icu |-> json.kpis.icu_dual_load_risk.icu_strain_pct,
     alert |-> json.kpis.alert_level,
     sub_scores |-> json.sub_scores]

\* The record computed from nothing but the last row of each series and a
\* one-district table holding the mean vulnerability score.
LastRowsOnly ==
    compute_all_kpis(
        << [df_env[Len(df_env)] EXCEPT !.index = 0] >>,
        << [df_micro[Len(df_micro)] EXCEPT !.index = 0] >>,
        << [index |-> 0, district_name |-> 1,
            vulnerability_score |-> Mean(Column(df_vuln, "vulnerability_score"))] >>,
        kpi.json.last_update)

\* C18 (stated of the record as compute_all_kpis returns it, before the
\* caller passes it on): the risk index, surge probability, combined stress, ICU strain, alert
\* level and sub-score snapshot of the record compute_all_kpis returns depend
\* only on the last row of the environmental series, the last row of the
\* micro-signal series and the mean vulnerability score: they are what the
\* last rows alone give, whatever the earlier rows and the lengths of the two
\* series are.
C18_LastRowsOnly ==
    (KpiComputed /\ kpi.status = "ok" /\ call.fn = "none") =>
        LET last == LastRowsOnly
        IN  /\ last.status = "ok"
            /\ Scoring(kpi.json) = Scoring(last.json)

\* C18 witness: a record computed from series of different lengths, where
\* the earlier environmental row (a hot polluted day) would give WARNING and
\* the last rows (a warm day, quiet micro-signals) give NORMAL.
C18_Witness ==
    /\ KpiComputed
    /\ kpi.status = "ok"
    /\ Len(df_env) = 2
    /\ Len(df_micro) = 1
    /\ df_env[1].temp_c = RatI(40)
    /\ df_env[2].temp_c = Rat(335, 10)
    /\ df_micro[Len(df_micro)].clinic_cases_index = RatI(10)
    /\ kpi.json.kpis.alert_level.value = "NORMAL"

(***************************************************************************)
(* Claims about the alert reason and the order of the levels               *)
(***************************************************************************)
\* The thresholds a call compares against, for a call without a mapping or
\* with a complete one.
CompleteThresholds ==
    \/ ~call.args.thresholds.given
    \/ DOMAIN call.args.thresholds.map = ThresholdKeys

EffectiveThresholds ==
    IF call.args.thresholds.given THEN call.args.thresholds.map
    ELSE DefaultThresholds

\* The texts of the conditions that fired, in the order given, joined by " + ".
FiredReasons(c1, t1, c2, t2, c3, t3) ==
    LET fired == (IF c1 THEN <<t1>> ELSE <<>>) \o (IF c2 THEN <<t2>> ELSE <<>>)
                 \o (IF c3 THEN <<t3>> ELSE <<>>)
    IN  CASE Len(fired) = 0 -> ""
          [] Len(fired) = 1 -> fired[1]
          [] Len(fired) = 2 -> fired[1] \o " + " \o fired[2]
          [] Len(fired) = 3 -> fired[1] \o " + " \o fired[2] \o " + " \o fired[3]

\* C19: an EMERGENCY carries the " + "-joined list of exactly the EMERGENCY
\* conditions that fired, in the order risk, surge, ICU strain; a WARNING the
\* " + "-joined list of exactly the WARNING conditions that fired, in the
\* order risk, surge, combined; WATCH and NORMAL carry their fixed reasons;
\* the reason is never empty and never mixes reasons of two severities.
C19_AlertReason ==
    (AlertCalled /\ CompleteThresholds) =>
        LET th == EffectiveThresholds
            risk == call.args.heat_resp_risk
            surge == call.args.surge_prob
            level == call.ret.value
            reason == call.ret.reason
        IN  /\ ~IsError(call.ret)
            /\ reason # ""
            /\ (level = "EMERGENCY") =>
                 reason = FiredReasons(
                     risk >= th.emergency_heat_risk, "Heat-Respiratory Risk Critical",
                     surge >= th.emergency_surge_prob, "Surge Probability Critical",
                     call.args.icu_strain >= th.emergency_icu_strain, "ICU Strain Critical")
            /\ (level = "WARNING") =>
                 reason = FiredReasons(
                     risk >= th.warning_heat_risk, "Elevated Heat-Respiratory Risk",
                     surge >= th.warning_surge_prob, "Elevated Surge Probability",
                     RGe(call.args.combined, Rat(65, 100)), "Multi-signal Threshold")
            /\ (level = "WATCH") => reason = "Elevated Indicators"
            /\ (level = "NORMAL") => reason = "All indicators within normal range"

\* C19 witness: an EMERGENCY raised by the surge probability and the ICU
\* strain while the risk index fires the WARNING condition only: the reason
\* names the two EMERGENCY conditions and nothing else.
C19_Witness ==
    /\ AlertCalled
    /\ ~call.args.thresholds.given
    /\ call.args.heat_resp_risk = 72
    /\ call.args.surge_prob = 70
    /\ call.args.icu_strain = 30
    /\ call.ret.value = "EMERGENCY"
    /\ call.ret.reason = "Surge Probability Critical + ICU Strain Critical"

\* The escalating order NORMAL < WATCH < WARNING < EMERGENCY.
Severity(level) ==
    CASE level = "NORMAL" -> 0
      [] level = "WATCH" -> 1
      [] level = "WARNING" -> 2
      [] level = "EMERGENCY" -> 3

\* The quadruples tried together with the thresholds of the last call.
RisksTried == IF call.args.thresholds.given THEN CustomRiskInputs ELSE AlertRiskInputs
SurgesTried == IF call.args.thresholds.given THEN CustomSurgeInputs ELSE AlertSurgeInputs
CombinedsTried ==
    IF call.args.thresholds.given THEN CustomCombinedInputs ELSE AlertCombinedInputs
IcusTried == IF call.args.thresholds.given THEN CustomIcuInputs ELSE AlertIcuInputs

\* C20: for the default thresholds and for every complete mapping, a
\* quadruple that is at least as large in all four inputs gets a level at
\* least as severe, under NORMAL < WATCH < WARNING < EMERGENCY.
C20_AlertMonotone ==
    (AlertCalled /\ CompleteThresholds) =>
        /\ ~IsError(call.ret)
        /\ \A risk2 \in {r \in RisksTried : r >= call.args.heat_resp_risk},
              surge2 \in {s \in SurgesTried : s >= call.args.surge_prob},
              combined2 \in {c \in CombinedsTried : RGe(c, call.args.combined)},
              icu2 \in {i \in IcusTried : i >= call.args.icu_strain} :
               LET higher == compute_alert_level(risk2, surge2, combined2, icu2,
                                                 call.args.thresholds)
               IN  /\ ~IsError(higher)
                   /\ Severity(higher.value) >= Severity(call.ret.value)

\* C20 witness: under a complete mapping whose levels are not in escalating
\* order, (50, 30, 0.1, 10) is NORMAL, and raising the risk to 58 gives
\* WARNING, raising the surge to 42 gives EMERGENCY.
C20_Witness ==
    /\ AlertCalled
    /\ call.args.thresholds.given
    /\ call.args.thresholds.map = UnorderedThresholds
    /\ AlertArgsAre(50, 30, Rat(10, 100), 10)
    /\ call.ret.value = "NORMAL"
    /\ compute_alert_level(58, 30, Rat(10, 100), 10, call.args.thresholds).value = "WARNING"
    /\ compute_alert_level(58, 42, Rat(10, 100), 10, call.args.thresholds).value = "EMERGENCY"

(***************************************************************************)
(* Claims about the drivers' trends and ranking                            *)
(***************************************************************************)
\* C21: the reported percent change of each signal is computed from
\* k = max(1, len \div 3) rows at each end of its series: 0 for a series of
\* fewer than 2 rows, 0 when the first k rows average exactly 0, otherwise
\* 100 * (mean of last k - mean of first k) / (mean of first k) to one
\* decimal; and for a series of 2 rows or more the two windows share no row.
C21_PctChangeWindows ==
    DriversCalled =>
        \A i \in 1..Len(call.ret) :
            LET series == SeriesOf(call.ret[i].name)
                n == Len(series)
                k == IMax(1, n \div 3)
                first == RSum(SubSeq(series, 1, k))
                last == RSum(SubSeq(series, n - k + 1, n))
                change == call.ret[i].change_pct
            IN  IF n < 2 THEN change = RatI(0)
                ELSE /\ (1..k) \cap ((n - k + 1)..n) = {}
                     /\ IF first = RatI(0) THEN change = RatI(0)
                        ELSE LET exact == RDiv(RMul(RSub(last, first), RatI(100)), first)
                             IN  /\ RLe(RAbs(RSub(change, exact)), Rat(5, 100))
                                 /\ RMul(change, RatI(10)).d = 1

\* C21 witness: six days whose windows hold two rows each: nights of -2 and
\* 2 average exactly 0 (change 0.0 although the nights warmed to 23), days
\* of 4 and 12 against 36.5 and 36.5 give 356.2 (356.25 rounded to the even
\* digit), and the one-row
\* micro-signal series give 0.0.
C21_Witness ==
    /\ DriversCalled
    /\ Len(df_env) = 6
    /\ Len(df_micro) = 1
    /\ Column(df_env, "temp_c")
         = <<RatI(4), RatI(12), RatI(12), RatI(12), Rat(365, 10), Rat(365, 10)>>
    /\ Len(call.ret) = 6
    /\ \E i \in 1..6 : /\ call.ret[i].name = "Daytime Temperature"
                       /\ call.ret[i].change_pct = Rat(3562, 10)
    /\ \E i \in 1..6 : /\ call.ret[i].name = "Night-time Temperature"
                       /\ call.ret[i].change_pct = RatI(0)
    /\ \E i \in 1..6 : /\ call.ret[i].name = "Symptom Search Index"
                       /\ call.ret[i].change_pct = RatI(0)

\* The six fixed candidates in their listing order.
Candidates ==
    << "Daytime Temperature", "Night-time Temperature", "PM2.5 Air Quality",
       "Symptom Search Index", "Pharmacy Respiratory Sales",
       "Clinic Respiratory Cases" >>

Listing(name) == CHOOSE p \in 1..6 : Candidates[p] = name

\* The hazard bonus of a candidate, from the latest row.
Bonus(name) ==
    LET latest_env == df_env[Len(df_env)]
    IN  CASE name = "Daytime Temperature" ->
                 IF RGe(latest_env.temp_c, RatI(35)) THEN 20 ELSE 0
          [] name = "Night-time Temperature" ->
                 IF RGe(latest_env.nighttime_temp_c, RatI(22)) THEN 25 ELSE 0
          [] name = "PM2.5 Air Quality" ->
                 IF RGe(latest_env.pm25_ugm3, RatI(35)) THEN 20 ELSE 0
          [] OTHER -> 0

\* impact = |change_pct| + bonus
Impact(name) == RAdd(RAbs(_pct_change(SeriesOf(name))), RatI(Bonus(name)))

\* a is ranked before b: a higher impact, or an equal one and listed earlier.
RankedBefore(a, b) ==
    \/ RGt(Impact(a), Impact(b))
    \/ Impact(a) = Impact(b) /\ Listing(a) < Listing(b)

\* C22: identify_drivers returns the first top_n of the six fixed candidates
\* ordered by non-increasing impact, impact being |change_pct| plus 20 for a
\* latest daytime temperature >= 35, plus 25 for a latest nighttime
\* temperature >= 22, plus 20 for a latest PM2.5 >= 35, and nothing for the
\* micro-signals; candidates of equal impact keep the listing order.
C22_DriverRanking ==
    (DriversCalled /\ call.args.top_n >= 1) =>
        LET ret == call.ret
            returned == {ret[i].name : i \in 1..Len(ret)}
            all == {Candidates[p] : p \in 1..6}
        IN  /\ Len(ret) = IMin(call.args.top_n, 6)
            /\ returned \subseteq all
            /\ \A i \in 1..Len(ret) : ret[i].score = Impact(ret[i].name)
            /\ \A i \in 1..Len(ret) : \A j \in (i + 1)..Len(ret) :
                   RankedBefore(ret[i].name, ret[j].name)
            /\ \A name \in all \ returned : \A i \in 1..Len(ret) :
                   RankedBefore(ret[i].name, name)

\* C22 witness: a warm day then a hot polluted day, and two equal days of
\* micro-signals: with top_n = 4 the list is PM2.5 (113.1 + 20), nighttime
\* temperature (33.3 + 25), daytime temperature (19.4 + 20), and the first
\* of the three micro-signals that tie at 0.
C22_Witness ==
    /\ DriversCalled
    /\ call.args.top_n = 4
    /\ Len(df_micro) = 2
    /\ df_micro[1].clinic_cases_index = df_micro[2].clinic_cases_index
    /\ Len(call.ret) = 4
    /\ call.ret[1].name = "PM2.5 Air Quality"
    /\ call.ret[1].score = Rat(1331, 10)
    /\ call.ret[2].name = "Night-time Temperature"
    /\ call.ret[2].score = Rat(583, 10)
    /\ call.ret[3].name = "Daytime Temperature"
    /\ call.ret[3].score = Rat(394, 10)
    /\ call.ret[4].name = "Symptom Search Index"
    /\ call.ret[4].score = RatI(0)

(***************************************************************************)
(* Claims about the peak date and the 48-hour deltas                       *)
(***************************************************************************)
\* The position of the first row whose temp_c + pm25_ugm3 is largest.
FirstPeakRow ==
    CHOOSE i \in 1..Len(df_env) :
        /\ \A j \in 1..Len(df_env) :
             RGe(RAdd(df_env[i].temp_c, df_env[i].pm25_ugm3),
                 RAdd(df_env[j].temp_c, df_env[j].pm25_ugm3))
        /\ \A j \in 1..(i - 1) :
             RLt(RAdd(df_env[j].temp_c, df_env[j].pm25_ugm3),
                 RAdd(df_env[i].temp_c, df_env[i].pm25_ugm3))

\* C23: for every non-empty environmental series, however its rows are
\* indexed, compute_all_kpis returns a record whose peak_date is the date of
\* the first row with the largest temp_c + pm25_ugm3.
C23_PeakDate ==
    KpiComputed =>
        /\ kpi.status = "ok"
        /\ kpi.json.kpis.icu_dual_load_risk.peak_date
             = StrftimeIfTimestamp(df_env[FirstPeakRow].date)

SurgeCalled == call.fn = "compute_respiratory_surge_probability"

\* C25: compute_respiratory_surge_probability(micro, pm25, night_temp) is
\* round(100 * sigmoid(0.06*(micro-50) + 0.05*(pm25-35) + 0.08*(night_temp-18)))
\* within 0..100; it is exactly 50 at the neutral point (50, 35, 18) and
\* never decreases when one input grows and the other two are held.
C25_SurgeProbability ==
    SurgeCalled =>
        LET micro == call.args.micro_signal_score
            pm25 == call.args.pm25
            night == call.args.nighttime_temp
            x == RDiv(RAdd(RAdd(RMul(RatI(6), RSub(micro, RatI(50))),
                                RMul(RatI(5), RSub(pm25, RatI(35)))),
                           RMul(RatI(8), RSub(night, RatI(18)))), RatI(100))
        IN  /\ call.ret \in 0..100
            /\ call.ret = SigmoidPct(x)
            /\ (micro = RatI(50) /\ pm25 = RatI(35) /\ night = RatI(18)) => call.ret = 50
            /\ \A m2 \in {m \in ScoreInputs : RGe(m, micro)} :
                   compute_respiratory_surge_probability(m2, pm25, night) >= call.ret
            /\ \A p2 \in {p \in Pm25Inputs : RGe(p, pm25)} :
                   compute_respiratory_surge_probability(micro, p2, night) >= call.ret
            /\ \A n2 \in {n \in NightInputs : RGe(n, night)} :
                   compute_respiratory_surge_probability(micro, pm25, n2) >= call.ret

\* C25 witness: the neutral point gives 50, and a warmer night (22.5
\* against 18) raises it to 59.
C25_Witness ==
    /\ SurgeCalled
    /\ call.args.micro_signal_score = RatI(50)
    /\ call.args.pm25 = RatI(35)
    /\ call.args.nighttime_temp = RatI(18)
    /\ call.ret = 50
    /\ compute_respiratory_surge_probability(RatI(50), RatI(35), Rat(225, 10)) = 59

(***************************************************************************)
(* Claims about the fused view                                             *)
(***************************************************************************)
FuseCalled == call.fn = "fuse_signals"

DatesOf(df) == {df[i].date : i \in 1..Len(df)}

UniqueDates(df) == \A i \in 1..Len(df) : \A j \in 1..Len(df) : df[i].date = df[j].date => i = j

\* C26: fuse_signals returns rows for exactly the dates that occur in both
\* the environmental and the micro-signal series: a date of only one series
\* never appears, every common date does, and when the dates of each series
\* are unique no date appears twice.
C26_InnerJoin ==
    FuseCalled =>
        /\ DatesOf(call.ret) = DatesOf(df_env) \cap DatesOf(df_micro)
        /\ (UniqueDates(df_env) /\ UniqueDates(df_micro)) => UniqueDates(call.ret)

\* C26 witness: days 1, 2 of readings and days 2, 3 of micro-signals fuse
\* into the single row of day 2.
C26_Witness ==
    /\ FuseCalled
    /\ Column(df_env, "date") = <<Timestamp(1), Timestamp(2)>>
    /\ Column(df_micro, "date") = <<Timestamp(2), Timestamp(3)>>
    /\ Len(call.ret) = 1
    /\ call.ret[1].date = Timestamp(2)
    /\ call.ret[1].temp_c = RatI(36)
    /\ call.ret[1].symptom_search_index = RatI(30)

(***************************************************************************)
(* Claims about the consistency of one record                              *)
(***************************************************************************)
\* C27: the record agrees with the conditions the recommender's trigger text
\* names: an EMERGENCY record has risk >= 85 or ICU strain >= 30, a WARNING
\* record has risk >= 70 or surge >= 55, a WATCH record has risk >= 55 or
\* surge >= 35.
C27_TriggerText ==
    (KpiComputed /\ kpi.status = "ok") =>
        LET k == kpi.json.kpis
            risk == k.heat_respiratory_risk_index.value
            surge == k.respiratory_disease_surge_probability.value_pct
            icu == k.icu_dual_load_risk.icu_strain_pct
            level == k.alert_level.value
        IN  /\ (level = "EMERGENCY") => (risk >= 85 \/ icu >= 30)
            /\ (level = "WARNING") => (risk >= 70 \/ surge >= 55)
            /\ (level = "WATCH") => (risk >= 55 \/ surge >= 35)

\* C28: in every record of compute_all_kpis (default thresholds, combined
\* computed from the record's own risk and surge) combined >= 0.65 implies
\* risk >= 70 or surge >= 55; so the combined condition never changes the
\* alert level, and a WARNING never has "Multi-signal Threshold" as its only
\* reason.
C28_CombinedRedundant ==
    (KpiComputed /\ kpi.status = "ok") =>
        LET k == kpi.json.kpis
            risk == k.heat_respiratory_risk_index.value
            surge == k.respiratory_disease_surge_probability.value_pct
            icu == k.icu_dual_load_risk.icu_strain_pct
            combined == k.combined_respiratory_stress_index.value
            alert == k.alert_level
        IN  /\ combined = compute_combined_stress(risk, surge)
            /\ RGe(combined, Rat(65, 100)) => (risk >= 70 \/ surge >= 55)
            /\ alert.value = compute_alert_level(risk, surge, RatI(0), icu, NoThresholds).value
            /\ (alert.value = "WARNING") => alert.reason # "Multi-signal Threshold"

\* C28 witness: a record with combined >= 0.65 whose risk is below 70: its
\* surge probability is at least 55.
C28_Witness ==
    /\ KpiComputed
    /\ kpi.status = "ok"
    /\ RGe(kpi.json.kpis.combined_respiratory_stress_index.value, Rat(65, 100))
    /\ kpi.json.kpis.heat_respiratory_risk_index.value < 70
    /\ kpi.json.kpis.respiratory_disease_surge_probability.value_pct >= 55

\* C29: the fields of one record agree with each other: convergence true
\* implies WARNING or EMERGENCY; level High (risk >= 70; Med is 40..69, Low
\* is below 40) implies WARNING or EMERGENCY; and NORMAL implies risk < 55,
\* surge < 35, ICU strain < 30 and convergence false.
C29_RecordConsistent ==
    (KpiComputed /\ kpi.status = "ok") =>
        LET k == kpi.json.kpis
            risk == k.heat_respiratory_risk_index.value
            level == k.heat_respiratory_risk_index.level
            surge == k.respiratory_disease_surge_probability.value_pct
            icu == k.icu_dual_load_risk.icu_strain_pct
            convergence == k.combined_respiratory_stress_index.convergence
            alert == k.alert_level.value
        IN  /\ convergence => alert \in {"WARNING", "EMERGENCY"}
            /\ (level = "High") <=> (risk >= 70)
            /\ (level = "Med") <=> (risk \in 40..69)
            /\ (level = "Low") <=> (risk < 40)
            /\ (level = "High") => alert \in {"WARNING", "EMERGENCY"}
            /\ (alert = "NORMAL") =>
                 (risk < 55 /\ surge < 35 /\ icu < 30 /\ ~convergence)

\* C29 witness: a record of level High whose alert is WARNING, not
\* EMERGENCY, and whose convergence flag is off.
C29_Witness ==
    /\ KpiComputed
    /\ kpi.status = "ok"
    /\ kpi.json.kpis.heat_respiratory_risk_index.level = "High"
    /\ kpi.json.kpis.heat_respiratory_risk_index.value = 70
    /\ kpi.json.kpis.alert_level.value = "WARNING"
    /\ ~kpi.json.kpis.combined_respiratory_stress_index.convergence

(***************************************************************************)
(* Claims about the direction of a driver                                  *)
(***************************************************************************)
\* C30: whenever a driver's change_pct is not zero, its direction is up
\* exactly when the mean of the last-third window of its signal is greater
\* than the mean of the first-third window, and down exactly when it is
\* smaller, also for a series whose first-third mean is negative.
C30_DirectionIsTrend ==
    DriversCalled =>
        \A i \in 1..Len(call.ret) :
            LET series == SeriesOf(call.ret[i].name)
                n == Len(series)
                k == IMax(1, n \div 3)
                early == Mean(SubSeq(series, 1, k))
                late == Mean(SubSeq(series, n - k + 1, n))
            IN  (call.ret[i].change_pct # RatI(0)) =>
                  /\ (call.ret[i].direction = "up") <=> RGt(late, early)
                  /\ (call.ret[i].direction = "down") <=> RLt(late, early)

====
